---- MODULE Spec2Model ----
(***************************************************************************)
(* Model of the linear-agent journal watcher: the file tailer              *)
(* (src/claude/watcher.ts), the cursor store (src/claude/cursor.ts), the   *)
(* record projector (src/claude/emitter.ts), the tool-map table            *)
(* (src/claude/tool-mapping.ts) and the plan reducer                       *)
(* (src/claude/plan-tracker.ts).                                           *)
(*                                                                         *)
(* Text is modelled as a sequence of tokens: a journal file is a sequence  *)
(* of bytes (one token per byte, "\n" the newline), a result text or an    *)
(* activity body is a sequence of words.  String concatenation is \o.      *)
(***************************************************************************)
EXTENDS Integers, Sequences, FiniteSets, TLC

VARIABLES
    \* ---- the journal files on disk and the agent that writes them
    disk,             \* path -> bytes written so far (no entry: no such file)
    todo,             \* path -> bytes the agent has still to append
    \* ---- the persisted cursor store (/tmp/claude-linear-cursor-<hash>.json)
    cursors,          \* path -> CursorState (no entry: no cursor file)
    \* ---- one Watcher process
    pc,               \* position of run()
    run,              \* number of watcher processes started so far
    stopping,         \* Watcher.stopping
    signals,          \* SIGTERM/SIGINT received while stopping was already set
    files,            \* Watcher.files: path -> TailedFile
    order,            \* insertion order of Watcher.files
    idx,              \* position of the for loops of run() in order
    knownSessionIds,  \* Watcher.knownSessionIds
    checkedFiles,     \* Watcher.checkedFiles
    totalBytesRead,   \* run(): totalBytesRead of the current sweep
    \* ---- the ActivityEmitter of that process
    pendingToolUses,  \* ActivityEmitter.pendingToolUses: id -> PendingTool
    tasks,            \* PlanTracker.tasks, in insertion order
    \* ---- the tracker (LinearSdk client), as the calls it received
    activities,       \* arguments of the createAgentActivity calls, in order
    planUpdates,      \* plans of the updateAgentSession calls, in order
    down,             \* the tracker is unreachable: its writes throw
    \* ---- one RateLimiter and its callers
    rateLimiter,      \* RateLimiter fields; tokens in thousandths of a token
    now,              \* Date.now(), in ms
    timers,           \* pending acquire call -> [due: time its setTimeout is due,
                      \*                           calledAt: time of the call]
    calls,            \* number of acquire() calls made so far
    \* ---- the lock file of the session and the processes that call acquireLock
    lockFile,         \* what lockPath(sessionId) names: [kind, ino, pid, sessionId]
    alive,            \* the pids of the live processes of the host
    lockPc,           \* process -> its position in acquireLock
    lockRead,         \* process -> lock.pid as it parsed it
    lockResult,       \* process -> what acquireLock returned ("none": not yet)
    \* ---- history
    causes,           \* for each activity, the tool_use id that caused it ("-": none)
    io,               \* the calls and returns of acquire() and of the tracker writes
    acquired,         \* the acquire() calls that resolved, in order:
                      \* [call, calledAt, at, waited]
    lockBefore,       \* process -> [file, live]: the lock file and the live pids
                      \* when it called acquireLock
    processed,        \* [path, line, entry] handed to ActivityEmitter.process by
                      \* this process, in order
    delivered,        \* [path, line] -> times handed to process, over all processes
    savedDelivered,   \* path -> what was delivered when its cursor was last written
    strict,           \* every readNewLines call of this process followed an append
    examined          \* path -> the isLinkedSession calls of this process on it, in
                      \* order: [readable, linked]

vars == <<disk, todo, cursors, pc, run, stopping, signals, files, order, idx, knownSessionIds,
          checkedFiles, totalBytesRead, pendingToolUses, tasks, activities,
          planUpdates, down, rateLimiter, now, timers, calls, lockFile, alive,
          lockPc, lockRead, lockResult, causes, io, acquired, lockBefore,
          processed, delivered, savedDelivered, strict, examined>>

emitterVars == <<pendingToolUses, tasks, activities, planUpdates, causes, io>>
trackerVars == <<down>>
limiterVars == <<rateLimiter, now, timers, calls, acquired>>
lockVars    == <<lockFile, alive, lockPc, lockRead, lockResult, lockBefore>>
agentVars   == <<disk, todo>>
watcherVars == <<pc, run, stopping, files, order, idx, knownSessionIds, checkedFiles,
                 totalBytesRead, examined>>
historyVars == <<processed, delivered, savedDelivered, strict>>

\* what the watcher and its projector leave alone
elsewhere == <<trackerVars, limiterVars, lockVars, signals>>

-----------------------------------------------------------------------------
(* Generic helpers: JavaScript Map and string primitives.                  *)

EmptyMap == <<>>

\* Map.prototype.set
MapSet(m, k, v) == [x \in (DOMAIN m) \cup {k} |-> IF x = k THEN v ELSE m[x]]

\* Map.prototype.delete
MapDelete(m, k) == [x \in (DOMAIN m) \ {k} |-> m[x]]

\* String(input.<field> ?? '')
Str(input, field) == IF field \in DOMAIN input THEN input[field] ELSE ""

\* String.prototype.includes, on a sequence of tokens
Includes(s, tok) == \E i \in 1..Len(s) : s[i] = tok

\* Array.prototype.join(sep) of a sequence of token sequences
RECURSIVE Join(_, _)
Join(parts, sep) ==
    IF parts = <<>> THEN <<>>
    ELSE IF Len(parts) = 1 THEN parts[1]
    ELSE parts[1] \o <<sep>> \o Join(Tail(parts), sep)


\* the leftmost, shortest match of  open (.*?) close  in a token sequence;
\* without the dotall flag "." does not match a newline
CaptureEnds(s, open, close, dotall) ==
    { ij \in (1..Len(s)) \X (1..Len(s)) :
        /\ ij[1] < ij[2]
        /\ s[ij[1]] = open
        /\ s[ij[2]] = close
        /\ \A k \in (ij[1] + 1)..(ij[2] - 1) : s[k] # close
        /\ dotall \/ \A k \in (ij[1] + 1)..(ij[2] - 1) : s[k] # "\n" }

Capture(s, open, close, dotall) ==
    LET ends == CaptureEnds(s, open, close, dotall)
    IN  IF ends = {} THEN [found |-> FALSE, text |-> <<>>]
        ELSE LET ij == CHOOSE e \in ends : \A f \in ends : e[1] <= f[1]
             IN  [found |-> TRUE, text |-> SubSeq(s, ij[1] + 1, ij[2] - 1)]

WhiteSpace == {" ", "\t", "\r", "\n"}

\* String.prototype.trim
RECURSIVE TrimLeft(_)
TrimLeft(s) ==
    IF s # <<>> /\ Head(s) \in WhiteSpace THEN TrimLeft(Tail(s)) ELSE s

RECURSIVE TrimRight(_)
TrimRight(s) ==
    IF s # <<>> /\ s[Len(s)] \in WhiteSpace
    THEN TrimRight(SubSeq(s, 1, Len(s) - 1)) ELSE s

Trim(s) == TrimRight(TrimLeft(s))

\* Math.max, Math.min
Max(a, b) == IF a >= b THEN a ELSE b
Min(a, b) == IF a <= b THEN a ELSE b

-----------------------------------------------------------------------------
(* src/claude/tool-mapping.ts                                              *)

Undefined == [undefined |-> TRUE]

ToolAction ==
    [ Bash            |-> "Ran command",
      Edit            |-> "Edited file",
      Write           |-> "Created file",
      Read            |-> "Read file",
      Glob            |-> "Searched files",
      Grep            |-> "Searched code",
      Task            |-> "Delegated subtask",
      WebFetch        |-> "Fetched URL",
      WebSearch       |-> "Web search",
      TaskCreate      |-> "Created task",
      TaskUpdate      |-> "Updated task",
      Skill           |-> "Invoked skill",
      AskUserQuestion |-> "Asked user",
      NotebookEdit    |-> "Edited notebook" ]

ToolField ==
    [ Bash            |-> "command",
      Edit            |-> "file_path",
      Write           |-> "file_path",
      Read            |-> "file_path",
      Glob            |-> "pattern",
      Grep            |-> "pattern",
      Task            |-> "description",
      WebFetch        |-> "url",
      WebSearch       |-> "query",
      TaskCreate      |-> "subject",
      TaskUpdate      |-> "taskId",
      Skill           |-> "skill",
      AskUserQuestion |-> "questions",
      NotebookEdit    |-> "notebook_path" ]

\* TOOL_MAPPING[name] is defined
HasMapper(name) == name \in DOMAIN ToolAction

\* the tools whose mapper copies a non-empty result into the mapping
ResultTools == {"Bash", "WebFetch"}

\* String(input.questions?.[0]?.question ?? '')
FirstQuestion(input) ==
    IF /\ "questions" \in DOMAIN input
       /\ Len(input.questions) >= 1
       /\ "question" \in DOMAIN input.questions[1]
    THEN input.questions[1].question
    ELSE ""

\* TOOL_MAPPING[name]?.(input, result); result <<>> stands for undefined or ''
TOOL_MAPPING(name, input, result) ==
    IF ~HasMapper(name) THEN Undefined
    ELSE LET parameter == IF name = "AskUserQuestion" THEN FirstQuestion(input)
                          ELSE Str(input, ToolField[name])
         IN  IF name \in ResultTools /\ result # <<>>
             THEN [action |-> ToolAction[name], parameter |-> parameter,
                   result |-> result]
             ELSE [action |-> ToolAction[name], parameter |-> parameter]

-----------------------------------------------------------------------------
(* src/claude/plan-tracker.ts                                              *)

STATUS_MAP ==
    [ pending     |-> "pending",
      in_progress |-> "inProgress",
      completed   |-> "completed",
      deleted     |-> "canceled" ]

\* the words of a result text that match /Task #(\d+)/, with the captured id
TaskIdWords == [w \in {"Task #1", "Task #2"} |-> IF w = "Task #1" THEN "1" ELSE "2"]

\* String(i) for an array index i
IndexStr == <<"0", "1", "2", "3">>

\* position of id in the ordered map, 0 when absent
TaskIndex(ts, id) ==
    IF \E i \in 1..Len(ts) : ts[i].id = id
    THEN CHOOSE i \in 1..Len(ts) : ts[i].id = id
    ELSE 0

\* Map.set on the insertion-ordered map: an existing key keeps its position
TasksSet(ts, id, item) ==
    LET i == TaskIndex(ts, id)
        e == [id |-> id, content |-> item.content, status |-> item.status]
    IN  IF i = 0 THEN Append(ts, e) ELSE [ts EXCEPT ![i] = e]

\* Map.delete
TasksDelete(ts, id) ==
    LET i == TaskIndex(ts, id)
    IN  IF i = 0 THEN ts ELSE SubSeq(ts, 1, i - 1) \o SubSeq(ts, i + 1, Len(ts))

\* PlanTracker.parseTaskId: "" stands for null
parseTaskId(resultText) ==
    LET hits == { i \in 1..Len(resultText) : resultText[i] \in DOMAIN TaskIdWords }
    IN  IF hits = {} THEN ""
        ELSE TaskIdWords[resultText[CHOOSE i \in hits : \A j \in hits : i <= j]]

handleTaskCreate(ts, input, resultText) ==
    LET id == parseTaskId(resultText)
    IN  IF id = "" THEN ts
        ELSE TasksSet(ts, id, [content |-> Str(input, "subject"), status |-> "pending"])

\* a property that is present and truthy
Truthy(input, field) == field \in DOMAIN input /\ input[field] # ""

\* handleTaskUpdate, would it set an item for an id the plan does not hold
handleTaskUpdate_CreatesMissing(ts, input) ==
    LET id == Str(input, "taskId")
        i  == TaskIndex(ts, id)
    IN  IF Str(input, "status") = "deleted" THEN TasksDelete(ts, id)
        ELSE LET s0 == IF i = 0
                       THEN TasksSet(ts, id, [content |-> "", status |-> "pending"])
                       ELSE ts
                 k  == TaskIndex(s0, id)
                 s1 == IF Truthy(input, "status")
                       THEN [s0 EXCEPT ![k].status = input.status] ELSE s0
             IN  IF Truthy(input, "subject")
                 THEN [s1 EXCEPT ![k].content = input.subject] ELSE s1

\* handleTaskUpdate, would it delete the item and set it again
handleTaskUpdate_Reinserts(ts, input) ==
    LET id == Str(input, "taskId")
        i  == TaskIndex(ts, id)
    IN  IF i = 0 THEN ts
        ELSE IF Str(input, "status") = "deleted" THEN TasksDelete(ts, id)
        ELSE TasksSet(TasksDelete(ts, id), id,
                      [content |-> IF Truthy(input, "subject")
                                   THEN input.subject ELSE ts[i].content,
                       status  |-> IF Truthy(input, "status")
                                   THEN input.status ELSE ts[i].status])

handleTaskUpdate(ts, input) ==
    LET id == Str(input, "taskId")
        i  == TaskIndex(ts, id)
    IN  IF i = 0 THEN ts
        ELSE IF Str(input, "status") = "deleted" THEN TasksDelete(ts, id)
        ELSE LET s1 == IF Truthy(input, "status")
                       THEN [ts EXCEPT ![i].status = input.status] ELSE ts
             IN  IF Truthy(input, "subject")
                 THEN [s1 EXCEPT ![i].content = input.subject] ELSE s1

\* handleTodoWrite, would it return on absent todos before it clears the map
handleTodoWrite_KeepsOnAbsent(ts, input) ==
    IF "todos" \notin DOMAIN input THEN ts
    ELSE [i \in 1..Len(input.todos) |->
            [id      |-> IndexStr[i],
             content |-> Str(input.todos[i], "content"),
             status  |-> IF "status" \in DOMAIN input.todos[i]
                         THEN input.todos[i].status ELSE "pending"]]

\* handleTodoWrite without this.tasks.clear(), the todos added after the tasks
handleTodoWrite_Appends(ts, input) ==
    IF "todos" \notin DOMAIN input THEN ts
    ELSE ts \o [i \in 1..Len(input.todos) |->
                  [id      |-> IndexStr[i],
                   content |-> Str(input.todos[i], "content"),
                   status  |-> IF "status" \in DOMAIN input.todos[i]
                               THEN input.todos[i].status ELSE "pending"]]

handleTodoWrite(ts, input) ==
    IF "todos" \notin DOMAIN input THEN <<>>
    ELSE [i \in 1..Len(input.todos) |->
            [id      |-> IndexStr[i],
             content |-> Str(input.todos[i], "content"),
             status  |-> IF "status" \in DOMAIN input.todos[i]
                         THEN input.todos[i].status ELSE "pending"]]

hasPlan(ts) == Len(ts) > 0

\* names every object inherits from Object.prototype; STATUS_MAP[name] is a
\* function for them, which ?? lets through
ObjectPrototypeKeys == {"constructor", "toString"}

\* the value STATUS_MAP[name] of an inherited name
Inherited(name) == "[Function: " \o name \o "]"

toLinearPlan(ts) ==
    [i \in 1..Len(ts) |->
        [content |-> ts[i].content,
         status  |-> IF ts[i].status \in DOMAIN STATUS_MAP
                     THEN STATUS_MAP[ts[i].status]
                     ELSE IF ts[i].status \in ObjectPrototypeKeys
                     THEN Inherited(ts[i].status)
                     ELSE "pending"]]

-----------------------------------------------------------------------------
(* src/claude/emitter.ts.  The operators below take and return the state  *)
(* the projector works on: st.pendingToolUses, st.tasks and the calls the  *)
(* tracker client has received (st.activities, st.planUpdates).            *)

\* WatcherConfig.sessionId
SessionId == "sess-test"

\* one event of the io history
Call(op)   == [op |-> op, ev |-> "call"]
Return(op) == [op |-> op, ev |-> "return"]
Throw(op)  == [op |-> op, ev |-> "throw"]

\* await client.<op>(...): the call, then its return, or its throw when the
\* tracker is down
Write(st, op) == <<Call(op), IF st.down THEN Throw(op) ELSE Return(op)>>

\* await this.rateLimiter.acquire()
Acquire == <<Call("acquire"), Return("acquire")>>

\* { agentSessionId, content, ...(ephemeral ? { ephemeral: true } : {}) }
ActivityArgs(content, ephemeral) ==
    IF ephemeral
    THEN [agentSessionId |-> SessionId, content |-> content, ephemeral |-> TRUE]
    ELSE [agentSessionId |-> SessionId, content |-> content]

\* emit, but the write is started without awaiting acquire()
emit_AcquireNotAwaited(st, content, ephemeral, cause) ==
    IF st.thrown THEN st
    ELSE [st EXCEPT !.activities = Append(@, ActivityArgs(content, ephemeral)),
                    !.causes = Append(@, cause),
                    !.io = @ \o <<Call("acquire"), Call("createAgentActivity"),
                                  Return("acquire"),
                                  Write(st, "createAgentActivity")[2]>>]

\* emit, but without the try/catch around the write
emit_NoCatch(st, content, ephemeral, cause) ==
    IF st.thrown THEN st
    ELSE [st EXCEPT !.activities = Append(@, ActivityArgs(content, ephemeral)),
                    !.causes = Append(@, cause),
                    !.io = @ \o Acquire \o Write(st, "createAgentActivity"),
                    !.thrown = st.down]

\* ActivityEmitter.emit: acquire(), then one createAgentActivity call whose throw
\* is caught and logged (cause is history only).  st.thrown: an exception is on
\* its way up, the statement is not reached
emit(st, content, ephemeral, cause) ==
    IF st.thrown THEN st
    ELSE [st EXCEPT !.activities = Append(@, ActivityArgs(content, ephemeral)),
                    !.causes = Append(@, cause),
                    !.io = @ \o Acquire \o Write(st, "createAgentActivity")]

\* { type: 'action', ...mapped }
ActionContent(mapped) ==
    IF "result" \in DOMAIN mapped
    THEN [type |-> "action", action |-> mapped.action,
          parameter |-> mapped.parameter, result |-> mapped.result]
    ELSE [type |-> "action", action |-> mapped.action,
          parameter |-> mapped.parameter]

\* ActivityEmitter.pushPlan: when there is a plan, acquire(), then one
\* updateAgentSession call whose throw is caught and logged
pushPlan(st) ==
    IF st.thrown \/ ~hasPlan(st.tasks) THEN st
    ELSE [st EXCEPT !.planUpdates = Append(@, toLinearPlan(st.tasks)),
                    !.io = @ \o Acquire \o Write(st, "updateAgentSession")]

\* ActivityEmitter.trackPlanUpdates
trackPlanUpdates(st, pending, resultText) ==
    IF pending.name = "TaskCreate"
    THEN pushPlan([st EXCEPT !.tasks = handleTaskCreate(@, pending.input, resultText)])
    ELSE IF pending.name = "TaskUpdate"
    THEN pushPlan([st EXCEPT !.tasks = handleTaskUpdate(@, pending.input)])
    ELSE IF pending.name = "TodoWrite"
    THEN pushPlan([st EXCEPT !.tasks = handleTodoWrite(@, pending.input)])
    ELSE st

\* the backtick character of the error body
Backtick == "(backtick)"

\* emitToolError, but the error activity is ephemeral
emitToolError_Ephemeral(st, pending, mapped, detail, cause) ==
    LET context == IF "parameter" \in DOMAIN mapped /\ mapped.parameter # ""
                   THEN <<" ", Backtick, mapped.parameter, Backtick>> ELSE <<>>
        suffix  == IF detail # <<>> THEN <<":\n">> \o detail ELSE <<>>
    IN  emit(st,
             [type |-> "error",
              body |-> <<"**", pending.name, "**">> \o context \o <<" failed">> \o suffix],
             TRUE, cause)

\* ActivityEmitter.emitToolError; detail <<>> stands for undefined or ''
emitToolError(st, pending, mapped, detail, cause) ==
    LET context == IF "parameter" \in DOMAIN mapped /\ mapped.parameter # ""
                   THEN <<" ", Backtick, mapped.parameter, Backtick>> ELSE <<>>
        suffix  == IF detail # <<>> THEN <<":\n">> \o detail ELSE <<>>
    IN  emit(st,
             [type |-> "error",
              body |-> <<"**", pending.name, "**">> \o context \o <<" failed">> \o suffix],
             FALSE, cause)

\* typeof block.content === 'string' ? block.content
\*                                   : block.content.map((c) => c.text).join('\n')
RawContent(block) ==
    IF block.contentIsString THEN block.content
    ELSE Join([i \in 1..Len(block.content) |-> block.content[i].text], "\n")

\* emitToolUse, but the action is not marked ephemeral
emitToolUse_NotEphemeral(st, block) ==
    LET st1    == [st EXCEPT !.pendingToolUses =
                       MapSet(@, block.id, [name |-> block.name, input |-> block.input])]
        mapped == TOOL_MAPPING(block.name, block.input, <<>>)
    IN  IF mapped = Undefined THEN st1
        ELSE emit(st1, ActionContent(mapped), FALSE, block.id)

\* emitToolUse, would it register the tool_use only after it found a mapper
emitToolUse_MappedOnly(st, block) ==
    LET mapped == TOOL_MAPPING(block.name, block.input, <<>>)
    IN  IF mapped = Undefined THEN st
        ELSE emit([st EXCEPT !.pendingToolUses =
                       MapSet(@, block.id, [name |-> block.name, input |-> block.input])],
                  ActionContent(mapped), TRUE, block.id)

\* ActivityEmitter.emitToolUse
emitToolUse(st, block) ==
    LET st1    == [st EXCEPT !.pendingToolUses =
                       MapSet(@, block.id, [name |-> block.name, input |-> block.input])]
        mapped == TOOL_MAPPING(block.name, block.input, <<>>)
    IN  IF mapped = Undefined THEN st1
        ELSE emit(st1, ActionContent(mapped), TRUE, block.id)

\* ConsumeToolResult, but the plan is tracked before the result is looked at
ConsumeToolResult_TracksErrors(st, block) ==
    LET pending    == st.pendingToolUses[block.tool_use_id]
        st1        == [st EXCEPT !.pendingToolUses = MapDelete(@, block.tool_use_id)]
        rawContent == RawContent(block)
        mapped     == TOOL_MAPPING(pending.name, pending.input, rawContent)
        st2        == trackPlanUpdates(st1, pending, rawContent)
    IN  IF Includes(rawContent, "<tool_use_error>")
        THEN emitToolError(st2, pending, mapped, <<>>, block.tool_use_id)
        ELSE IF "is_error" \in DOMAIN block /\ block.is_error
        THEN emitToolError(st2, pending, mapped, rawContent, block.tool_use_id)
        ELSE IF mapped # Undefined
        THEN emit(st2, ActionContent(mapped), FALSE, block.tool_use_id)
        ELSE st2

\* ConsumeToolResult, but without the return after emitToolError
ConsumeToolResult_ActionAfterError(st, block) ==
    LET pending    == st.pendingToolUses[block.tool_use_id]
        st1        == [st EXCEPT !.pendingToolUses = MapDelete(@, block.tool_use_id)]
        rawContent == RawContent(block)
        mapped     == TOOL_MAPPING(pending.name, pending.input, rawContent)
        st2        == IF Includes(rawContent, "<tool_use_error>")
                      THEN emitToolError(st1, pending, mapped, <<>>, block.tool_use_id)
                      ELSE IF "is_error" \in DOMAIN block /\ block.is_error
                      THEN emitToolError(st1, pending, mapped, rawContent,
                                         block.tool_use_id)
                      ELSE trackPlanUpdates(st1, pending, rawContent)
    IN  IF mapped # Undefined
        THEN emit(st2, ActionContent(mapped), FALSE, block.tool_use_id)
        ELSE st2

\* ConsumeToolResult, but the final action is emitted before the plan is tracked
ConsumeToolResult_ActionFirst(st, block) ==
    LET pending    == st.pendingToolUses[block.tool_use_id]
        st1        == [st EXCEPT !.pendingToolUses = MapDelete(@, block.tool_use_id)]
        rawContent == RawContent(block)
        mapped     == TOOL_MAPPING(pending.name, pending.input, rawContent)
    IN  IF Includes(rawContent, "<tool_use_error>")
        THEN emitToolError(st1, pending, mapped, <<>>, block.tool_use_id)
        ELSE IF "is_error" \in DOMAIN block /\ block.is_error
        THEN emitToolError(st1, pending, mapped, rawContent, block.tool_use_id)
        ELSE LET st2 == IF mapped # Undefined
                        THEN emit(st1, ActionContent(mapped), FALSE, block.tool_use_id)
                        ELSE st1
             IN  trackPlanUpdates(st2, pending, rawContent)

\* ActivityEmitter.emitToolResult past its guard: the result of a pending tool_use
ConsumeToolResult(st, block) ==
    LET pending    == st.pendingToolUses[block.tool_use_id]
        st1        == [st EXCEPT !.pendingToolUses = MapDelete(@, block.tool_use_id)]
        rawContent == RawContent(block)
        mapped     == TOOL_MAPPING(pending.name, pending.input, rawContent)
    IN  IF Includes(rawContent, "<tool_use_error>")
        THEN emitToolError(st1, pending, mapped, <<>>, block.tool_use_id)
        ELSE IF "is_error" \in DOMAIN block /\ block.is_error
        THEN emitToolError(st1, pending, mapped, rawContent, block.tool_use_id)
        ELSE LET st2 == trackPlanUpdates(st1, pending, rawContent)
             IN  IF mapped # Undefined
                 THEN emit(st2, ActionContent(mapped), FALSE, block.tool_use_id)
                 ELSE st2

\* emitToolResult, but a result that matches no pending tool_use is reported
emitToolResult_ReportsUnknown(st, block) ==
    IF block.tool_use_id \notin DOMAIN st.pendingToolUses
    THEN emit(st, [type |-> "error", body |-> <<"no tool_use for ", block.tool_use_id>>],
              FALSE, block.tool_use_id)
    ELSE ConsumeToolResult(st, block)

\* ActivityEmitter.emitToolResult
emitToolResult(st, block) ==
    IF block.tool_use_id \notin DOMAIN st.pendingToolUses THEN st
    ELSE ConsumeToolResult(st, block)

\* ActivityEmitter.emitThinking
emitThinking(st, block) ==
    emit(st, [type |-> "thought", body |-> block.thinking], TRUE, "-")

\* emitText, would it mark the response as transient
emitText_Ephemeral(st, block) ==
    LET text == Trim(block.text)
    IN  IF text = <<>> THEN st
        ELSE emit(st, [type |-> "response", body |-> text], TRUE, "-")

\* ActivityEmitter.emitText
emitText(st, block) ==
    LET text == Trim(block.text)
    IN  IF text = <<>> THEN st
        ELSE emit(st, [type |-> "response", body |-> text], FALSE, "-")

\* entry.message.content.filter(text blocks).map((b) => b.text).join(' ')
RECURSIVE TextOfBlocks(_)
TextOfBlocks(blocks) ==
    IF blocks = <<>> THEN <<>>
    ELSE LET rest == TextOfBlocks(Tail(blocks))
         IN  IF Head(blocks).type = "text" THEN <<Head(blocks).text>> \o rest ELSE rest

\* ActivityEmitter.processAssistant
processAssistant(st, entry) ==
    IF "message" \notin DOMAIN entry THEN [st EXCEPT !.thrown = TRUE]
    ELSE IF "isApiErrorMessage" \in DOMAIN entry /\ entry.isApiErrorMessage
    THEN LET text == Join(TextOfBlocks(entry.message.content), " ")
         IN  IF text # <<>>
             THEN emit(st, [type |-> "error", body |-> text], FALSE, "-")
             ELSE st
    ELSE IF entry.message.content = <<>> THEN st
    ELSE LET block == entry.message.content[1]
         IN  IF block.type = "thinking" THEN emitThinking(st, block)
             ELSE IF block.type = "text" THEN emitText(st, block)
             ELSE IF block.type = "tool_use" THEN emitToolUse(st, block)
             ELSE st

\* the loop of processUser over the content blocks
RECURSIVE ToolResults(_, _)
ToolResults(st, blocks) ==
    IF blocks = <<>> \/ st.thrown THEN st
    ELSE ToolResults(IF Head(blocks).type = "tool_result"
                     THEN emitToolResult(st, Head(blocks)) ELSE st,
                     Tail(blocks))

\* processUser, would it hand the tool_result blocks of every user record on
processUser_IgnoresSource(st, entry) ==
    IF entry.message.contentIsString THEN st
    ELSE ToolResults(st, entry.message.content)

\* ActivityEmitter.processUser; message.contentIsString is typeof content === 'string'
processUser(st, entry) ==
    IF ~Truthy(entry, "sourceToolAssistantUUID")
    THEN LET text  == IF entry.message.contentIsString THEN entry.message.content
                      ELSE <<>>
             match == Capture(text, "<prompt>", "</prompt>", TRUE)
             externalPrompt == Trim(match.text)
         IN  IF match.found /\ externalPrompt # <<>>
             THEN emit(st, [type |-> "response",
                            body |-> <<"> **External prompt:** ">> \o externalPrompt],
                       FALSE, "-")
             ELSE st
    ELSE IF entry.message.contentIsString THEN st
    ELSE ToolResults(st, entry.message.content)

\* ActivityEmitter.processSummary
processSummary(st, entry) ==
    emit(st, [type |-> "thought", body |-> <<"Context: ">> \o entry.summary], FALSE, "-")

\* ActivityEmitter.processQueueOperation
processQueueOperation(st, entry) ==
    IF entry.operation # "enqueue" \/ "content" \notin DOMAIN entry \/ entry.content = <<>>
    THEN st
    ELSE LET summary == Capture(entry.content, "<summary>", "</summary>", TRUE)
             status  == Capture(entry.content, "<status>", "</status>", FALSE)
             type    == IF status.found /\ status.text = <<"failed">>
                        THEN "error" ELSE "action"
         IN  IF ~summary.found \/ summary.text = <<>> THEN st
             ELSE emit(st, [type |-> type, body |-> summary.text], FALSE, "-")

\* ActivityEmitter.process
process(st, entry) ==
    LET type == Str(entry, "type")
    IN  IF type = "assistant" THEN processAssistant(st, entry)
        ELSE IF type = "user" THEN processUser(st, entry)
        ELSE IF type = "summary" THEN processSummary(st, entry)
        ELSE IF type = "queue-operation" THEN processQueueOperation(st, entry)
        ELSE st

\* a new ActivityEmitter and the calls its client has received: none
NewEmitter ==
    [pendingToolUses |-> EmptyMap, tasks |-> <<>>, activities |-> <<>>,
     planUpdates |-> <<>>, causes |-> <<>>, io |-> <<>>, down |-> FALSE,
     thrown |-> FALSE]

\* the projector state held in the variables
EmitterState ==
    [pendingToolUses |-> pendingToolUses, tasks |-> tasks, activities |-> activities,
     planUpdates |-> planUpdates, causes |-> causes, io |-> io, down |-> down,
     thrown |-> FALSE]

\* the variables hold a new projector
SetEmitterInit ==
    /\ pendingToolUses = EmptyMap
    /\ tasks = <<>>
    /\ activities = <<>>
    /\ planUpdates = <<>>
    /\ causes = <<>>
    /\ io = <<>>

\* the variables take the projector state st
SetEmitter(st) ==
    /\ pendingToolUses' = st.pendingToolUses
    /\ tasks' = st.tasks
    /\ activities' = st.activities
    /\ planUpdates' = st.planUpdates
    /\ causes' = st.causes
    /\ io' = st.io

-----------------------------------------------------------------------------
(* src/rate-limiter.ts.  Token counts are kept in thousandths of a token,  *)
(* so that elapsed * refillRate (refillRate = perSecond / 1000 per ms) is   *)
(* the integer elapsed * perSecond.                                        *)

\* one token
Token == 1000

\* new RateLimiter({ perSecond, burst }) at time t
NewRateLimiter(perSecond, burst, t) ==
    [tokens |-> burst * Token, maxTokens |-> burst * Token, perSecond |-> perSecond,
     lastRefill |-> t]

\* refill, but without the cap at maxTokens
refill_Uncapped(rl, t) ==
    [rl EXCEPT !.tokens = rl.tokens + (t - rl.lastRefill) * rl.perSecond,
               !.lastRefill = t]

\* RateLimiter.refill at time t
refill(rl, t) ==
    [rl EXCEPT !.tokens = Min(rl.maxTokens, rl.tokens + (t - rl.lastRefill) * rl.perSecond),
               !.lastRefill = t]

\* Math.ceil(a / b) for b > 0
CeilDiv(a, b) == IF a % b = 0 THEN a \div b ELSE (a \div b) + 1

\* Math.ceil((1 - this.tokens) / this.refillRate)
waitMs(rl) == CeilDiv(Token - rl.tokens, rl.perSecond)

\* the variables hold a new RateLimiter that no one has called
SetLimiterInit(perSecond, burst) ==
    /\ rateLimiter = NewRateLimiter(perSecond, burst, 0)
    /\ now = 0
    /\ timers = EmptyMap
    /\ calls = 0
    /\ acquired = <<>>

-----------------------------------------------------------------------------
(* claude/lock.ts: the lock file of a session.  The file system keeps,     *)
(* under the path of the lock, at most one file; ino tells the files that  *)
(* were created under that path apart (0: the file found at the start,    *)
(* p: the file process p created).                                         *)

MaxProcs == 2   \* processes that call acquireLock for the session

\* the pids of the processes that call acquireLock
Procs == 1..MaxProcs

\* a live process of the host that called acquireLock before the others started
HolderPid == MaxProcs + 1

\* the pid of a process that is gone
StalePid == MaxProcs + 2

\* no file under lockPath(sessionId)
NoFile == [kind |-> "absent", ino |-> 0, pid |-> 0, sessionId |-> ""]

\* a file whose content is JSON.stringify({ pid, sessionId, createdAt })
LockInfo(ino, pid) == [kind |-> "json", ino |-> ino, pid |-> pid, sessionId |-> SessionId]

\* a file whose content JSON.parse rejects
Unparsable(ino) == [kind |-> "garbage", ino |-> ino, pid |-> 0, sessionId |-> ""]

\* a file that open(path, 'wx') created and that nothing was written to yet
Created(ino) == [kind |-> "empty", ino |-> ino, pid |-> 0, sessionId |-> ""]

\* existsSync(path)
existsSync(file) == file.kind # "absent"

\* process.kill(pid, 0) answers no process for every pid
isProcessAlive_Never(pid, live) == FALSE

\* process.kill(pid, 0) does not throw
isProcessAlive(pid, live) == pid \in live

\* the variables hold a host where no lock file is and acquireLock is not called
SetLockInit ==
    /\ lockFile = NoFile
    /\ alive = {}
    /\ lockPc = [p \in Procs |-> "done"]
    /\ lockRead = [p \in Procs |-> 0]
    /\ lockResult = [p \in Procs |-> "none"]
    /\ lockBefore = [p \in Procs |-> [file |-> NoFile, live |-> {}]]

-----------------------------------------------------------------------------
(* The journal: JSON text as bytes.  A journal line is the JSON text of    *)
(* one entry; its first byte is "{", its last "}", the bytes between stand *)
(* for the members of the object.                                          *)

\* the tailed journal file (a path matching */<sessionId>.jsonl)
Paths == {"F1"}

MaxLines == 2      \* lines of a journal
MaxRuns  == 2      \* watcher processes started one after the other
MaxBuffer == 8     \* bytes of a partial-line buffer (a read that exceeds it is cut off)
MaxCount == 2      \* lineCount of a tailed file (a read that exceeds it is cut off)

JournalNames == {"A", "B", "L", "M", "U", "R", "V", "W"}

\* the entry a journal line holds
JournalEntry(n) ==
    IF n = "A"
    THEN [type |-> "summary", summary |-> <<"A">>, leafUuid |-> "leaf-A"]
    ELSE IF n = "B"
    THEN [type |-> "assistant", uuid |-> "uuid-B", sessionId |-> SessionId,
          message |-> [content |-> <<[type |-> "text", text |-> <<"B">>]>>]]
    ELSE IF n = "M"
    THEN [type |-> "assistant", uuid |-> "uuid-M", sessionId |-> SessionId]
    ELSE IF n = "U"
    THEN [type |-> "assistant", uuid |-> "uuid-U", sessionId |-> SessionId,
          message |-> [content |-> <<[type |-> "tool_use", id |-> "tu-3",
                                      name |-> "TaskCreate",
                                      input |-> [subject |-> "Write tests"]]>>]]
    ELSE IF n = "R"
    THEN [type |-> "user", uuid |-> "uuid-R", sessionId |-> SessionId,
          sourceToolAssistantUUID |-> "uuid-U",
          message |-> [content |-> <<[type |-> "tool_result", tool_use_id |-> "tu-3",
                                      content |-> <<"Task #1", " created">>,
                                      contentIsString |-> TRUE]>>,
                       contentIsString |-> FALSE]]
    ELSE IF n = "V"
    THEN [type |-> "assistant", uuid |-> "uuid-V", sessionId |-> SessionId,
          message |-> [content |-> <<[type |-> "tool_use", id |-> "tu-4",
                                      name |-> "TaskUpdate",
                                      input |-> [taskId |-> "1",
                                                 status |-> "in_progress"]]>>]]
    ELSE IF n = "W"
    THEN [type |-> "user", uuid |-> "uuid-W", sessionId |-> SessionId,
          sourceToolAssistantUUID |-> "uuid-V",
          message |-> [content |-> <<[type |-> "tool_result", tool_use_id |-> "tu-4",
                                      content |-> <<"Updated">>,
                                      contentIsString |-> TRUE]>>,
                       contentIsString |-> FALSE]]
    ELSE [type |-> "assistant", uuid |-> "uuid-L", sessionId |-> "sess-2",
          message |-> [content |-> <<[type |-> "thinking", thinking |-> <<"L">>]>>]]

\* JSON.stringify(entry): "L" is a longer line than the others
Stringify(n) == IF n = "L" THEN <<"{", n, "+", "}">> ELSE <<"{", n, "}">>

\* JSON texts of values that are not objects
JsonPrimitives == { <<"null">>, <<"7">> }

\* JSON.parse(line): ok is FALSE where JSON.parse throws, object is FALSE where
\* the value is not an object ("uuid" in value throws)
JSONparse(line) ==
    IF \E n \in JournalNames : line = Stringify(n)
    THEN [ok |-> TRUE, object |-> TRUE,
          value |-> JournalEntry(CHOOSE n \in JournalNames : line = Stringify(n))]
    ELSE IF line \in JsonPrimitives
    THEN [ok |-> TRUE, object |-> FALSE, value |-> Undefined]
    ELSE [ok |-> FALSE, object |-> FALSE, value |-> Undefined]

\* the journals the agent may write: MaxLines distinct entries, one per line,
\* starting with any entry and going round JournalOrder (it writes them piece by
\* piece, so every shorter journal is on disk on the way)
JournalOrder == <<"A", "L", "B">>

NameSeqs ==
    { [i \in 1..Min(MaxLines, Len(JournalOrder)) |->
          JournalOrder[((start + i - 2) % Len(JournalOrder)) + 1]] :
        start \in 1..Len(JournalOrder) }

RECURSIVE Jsonl(_)
Jsonl(names) ==
    IF names = <<>> THEN <<>>
    ELSE Stringify(Head(names)) \o <<"\n">> \o Jsonl(Tail(names))

Journals == { Jsonl(s) : s \in NameSeqs }

-----------------------------------------------------------------------------
(* src/claude/cursor.ts                                                    *)

\* loadCursor: null when there is no cursor file
HasCursor(store, path) == path \in DOMAIN store

\* saveCursor: writeFileSync of the JSON text of the cursor
saveCursor(store, path, cursor) == MapSet(store, path, cursor)

-----------------------------------------------------------------------------
(* src/claude/watcher.ts: the tailer                                        *)

CURSOR_SAVE_LINES == 10
MAX_LINK_CHECK_LINES == 5
LINK_HEAD_BYTES == 32768


\* Blob.slice(start, end): a negative position counts from the end of the blob
BlobSlice(content, start, end) ==
    LET size == Len(content)
        from == IF start < 0 THEN Max(size + start, 0) ELSE Min(start, size)
        to   == IF end < 0 THEN Max(size + end, 0) ELSE Min(end, size)
    IN  SubSeq(content, from + 1, to)

\* String.prototype.split("\n")
RECURSIVE Split(_)
Split(data) ==
    IF ~Includes(data, "\n") THEN <<data>>
    ELSE LET i == CHOOSE k \in 1..Len(data) :
                      data[k] = "\n" /\ \A j \in 1..(k - 1) : data[j] # "\n"
         IN  <<SubSeq(data, 1, i - 1)>> \o Split(SubSeq(data, i + 1, Len(data)))

\* String.prototype.endsWith("\n")
EndsWithNewline(data) == data # <<>> /\ data[Len(data)] = "\n"

\* Watcher.addFile: the new TailedFile
NewTailedFile(store, path) ==
    IF HasCursor(store, path)
    THEN [path |-> path, byteOffset |-> store[path].byteOffset, lineBuffer |-> <<>>,
          lineCount |-> store[path].lineCount, lastUuid |-> store[path].lastUuid,
          linesSinceSave |-> 0]
    ELSE [path |-> path, byteOffset |-> 0, lineBuffer |-> <<>>, lineCount |-> 0,
          lastUuid |-> "", linesSinceSave |-> 0]

(* The state a read works on:  r.file the TailedFile, r.known the          *)
(* knownSessionIds, r.st the projector state, and the history r.processed, *)
(* r.delivered; r.crashed when an exception left the call.                 *)

\* one more delivery of line of the file path
Deliver(bag, path, line) ==
    LET k == [path |-> path, line |-> line]
    IN  MapSet(bag, k, IF k \in DOMAIN bag THEN bag[k] + 1 ELSE 1)

\* Watcher.processLine; "uuid" in entry throws a TypeError, outside the try
\* blocks, when entry is not an object
processLine(r, line) ==
    LET parsed == JSONparse(line)
    IN  IF ~parsed.ok THEN r
        ELSE IF ~parsed.object
        THEN [r EXCEPT !.file.lineCount = @ + 1, !.crashed = TRUE]
        ELSE LET entry == parsed.value
                 after == process(r.st, entry)
             IN  [r EXCEPT
                    !.file.lineCount = @ + 1,
                    !.file.lastUuid = IF "uuid" \in DOMAIN entry THEN entry.uuid ELSE @,
                    !.known = IF "sessionId" \in DOMAIN entry
                              THEN @ \cup {entry.sessionId} ELSE @,
                    !.file.linesSinceSave = @ + 1,
                    !.st = [after EXCEPT !.thrown = FALSE],
                    !.processed = Append(@, [path |-> r.file.path, line |-> line,
                                             entry |-> entry, threw |-> after.thrown]),
                    !.delivered = Deliver(@, r.file.path, line)]

\* the for loop of readNewLines over the lines
RECURSIVE ProcessLines(_, _)
ProcessLines(r, lines) ==
    IF lines = <<>> \/ r.crashed THEN r
    ELSE LET trimmed == Trim(Head(lines))
         IN  ProcessLines(IF trimmed = <<>> THEN r ELSE processLine(r, trimmed),
                          Tail(lines))

\* the byte offset and the partial-line buffer after the split
\* AfterSplit, but the offset is left at the observed size when a partial is kept
AfterSplit_OffsetAtSize(size, data) ==
    LET lines == Split(data)
    IN  IF ~EndsWithNewline(data)
        THEN [lineBuffer |-> lines[Len(lines)],
              byteOffset |-> size,
              lines      |-> SubSeq(lines, 1, Len(lines) - 1)]
        ELSE [lineBuffer |-> <<>>, byteOffset |-> size, lines |-> lines]

AfterSplit(size, data) ==
    LET lines == Split(data)
    IN  IF ~EndsWithNewline(data)
        THEN [lineBuffer |-> lines[Len(lines)],
              byteOffset |-> size - Len(lines[Len(lines)]),
              lines      |-> SubSeq(lines, 1, Len(lines) - 1)]
        ELSE [lineBuffer |-> <<>>, byteOffset |-> size, lines |-> lines]

\* Watcher.readNewLines on a file whose bytes are content: the state after the
\* call, with the value returned in ret
readNewLines(r, content) ==
    LET size == Len(content)
    IN  IF size <= r.file.byteOffset THEN [r EXCEPT !.ret = 0]
        ELSE LET chunk == BlobSlice(content, r.file.byteOffset, size)
                 data  == r.file.lineBuffer \o chunk
                 split == AfterSplit(size, data)
                 r1    == [r EXCEPT !.file.byteOffset = split.byteOffset,
                                    !.file.lineBuffer = split.lineBuffer,
                                    !.ret = size - r.file.byteOffset]
             IN  ProcessLines(r1, split.lines)

\* the entries of the first lines of a candidate file that parse
LinkLines(content) ==
    LET head  == BlobSlice(content, 0, Min(Len(content), LINK_HEAD_BYTES))
        lines == Split(head)
    IN  SubSeq(lines, 1, Min(Len(lines), MAX_LINK_CHECK_LINES))

\* Watcher.isLinkedSession
isLinkedSession(content, known) ==
    \E i \in 1..Len(LinkLines(content)) :
        LET line == LinkLines(content)[i]
        IN  /\ Trim(line) # <<>>
            /\ JSONparse(line).ok
            /\ JSONparse(line).object
            /\ Truthy(JSONparse(line).value, "sessionId")
            /\ JSONparse(line).value.sessionId \in known

\* Watcher.persistAllCursors: the files it writes a cursor for
Dirty(fs) == { p \in DOMAIN fs : fs[p].linesSinceSave > 0 \/ fs[p].lineCount > 0 }

\* Watcher.persistAllCursors; written are the files whose writeFileSync succeeds
persistAllCursors(written) ==
    /\ cursors' = [p \in (DOMAIN cursors) \cup written |->
                      IF p \in written
                      THEN [byteOffset |-> files[p].byteOffset,
                            lineCount  |-> files[p].lineCount,
                            lastUuid   |-> files[p].lastUuid]
                      ELSE cursors[p]]
    /\ files' = [p \in DOMAIN files |->
                    IF p \in Dirty(files) THEN [files[p] EXCEPT !.linesSinceSave = 0]
                    ELSE files[p]]
    /\ savedDelivered' = [p \in Paths |->
                             IF p \in written
                             THEN { k.line : k \in { d \in DOMAIN delivered : d.path = p } }
                             ELSE savedDelivered[p]]

\* the watcher has read file p up to its present end
CaughtUp(p) == files[p].byteOffset + Len(files[p].lineBuffer) = Len(disk[p])

\* the outcome of readNewLines on the tailed file p as things stand
ReadResult(p) ==
    readNewLines([file |-> files[p], known |-> knownSessionIds, st |-> EmitterState,
                  processed |-> processed, delivered |-> delivered, ret |-> 0,
                  crashed |-> FALSE],
                 disk[p])

\* one readNewLines call of run() on the tailed file p
ReadFile(p) ==
    \E r \in {ReadResult(p)} :
        /\ Len(r.file.lineBuffer) <= MaxBuffer
        /\ r.file.lineCount <= MaxCount
        /\ files' = [files EXCEPT ![p] = r.file]
        /\ knownSessionIds' = r.known
        /\ SetEmitter(r.st)
        /\ processed' = r.processed
        /\ delivered' = r.delivered
        /\ strict' = (strict /\ ~CaughtUp(p))

Running == pc \in {"wait", "loop", "read", "save", "drain"}

-----------------------------------------------------------------------------
(* The agent appends to its journal; watcher processes run one at a time.   *)

Init ==
    /\ disk = EmptyMap
    /\ todo \in [Paths -> Journals]
    /\ cursors = EmptyMap
    /\ pc = "idle"
    /\ run = 0
    /\ stopping = FALSE
    /\ files = EmptyMap
    /\ order = <<>>
    /\ idx = 1
    /\ knownSessionIds = {}
    /\ checkedFiles = {}
    /\ examined = EmptyMap
    /\ totalBytesRead = 0
    /\ SetEmitterInit
    /\ SetLimiterInit(2, 5)
    /\ down = FALSE
    /\ SetLockInit
    /\ signals = 0
    /\ processed = <<>>
    /\ delivered = EmptyMap
    /\ savedDelivered = [p \in Paths |-> {}]
    /\ strict = TRUE

\* the agent writes the next bytes of its journal, creating the file if need be
AgentAppend(p) ==
    /\ todo[p] # <<>>
    /\ \E k \in 1..Len(todo[p]) :
        /\ disk' = MapSet(disk, p, (IF p \in DOMAIN disk THEN disk[p] ELSE <<>>)
                                   \o SubSeq(todo[p], 1, k))
        /\ todo' = [todo EXCEPT ![p] = SubSeq(@, k + 1, Len(@))]
    /\ UNCHANGED <<cursors, watcherVars, emitterVars, historyVars>>
    /\ UNCHANGED elsewhere

\* the start of a watcher, would the pending registry and the plan be restored
\* from the process before it
StartWatcher_KeepsEmitter ==
    /\ pc \in {"idle", "stopped", "killed", "crashed"}
    /\ run < MaxRuns
    /\ run' = run + 1
    /\ pc' = "wait"
    /\ stopping' = FALSE
    /\ files' = EmptyMap
    /\ order' = <<>>
    /\ idx' = 1
    /\ knownSessionIds' = {SessionId}
    /\ checkedFiles' = {}
    /\ examined' = EmptyMap
    /\ totalBytesRead' = 0
    /\ SetEmitter([NewEmitter EXCEPT !.pendingToolUses = pendingToolUses,
                                     !.tasks = tasks])
    /\ processed' = <<>>
    /\ strict' = TRUE
    /\ UNCHANGED <<agentVars, cursors, delivered, savedDelivered>>
    /\ UNCHANGED elsewhere

\* cli.ts watch: new Watcher(...), watcher.run() up to the wait loop
StartWatcher ==
    /\ pc \in {"idle", "stopped", "killed", "crashed"}
    /\ run < MaxRuns
    /\ run' = run + 1
    /\ pc' = "wait"
    /\ stopping' = FALSE
    /\ files' = EmptyMap
    /\ order' = <<>>
    /\ idx' = 1
    /\ knownSessionIds' = {SessionId}
    /\ checkedFiles' = {}
    /\ examined' = EmptyMap
    /\ totalBytesRead' = 0
    /\ SetEmitter(NewEmitter)
    /\ processed' = <<>>
    /\ strict' = TRUE
    /\ UNCHANGED <<agentVars, cursors, delivered, savedDelivered>>
    /\ UNCHANGED elsewhere

\* run(): findSessionFile found the file; addFile(filePath)
FoundSessionFile(p) ==
    /\ pc = "wait"
    /\ ~stopping
    /\ p \in DOMAIN disk
    /\ files' = MapSet(files, p, NewTailedFile(cursors, p))
    /\ order' = Append(order, p)
    /\ checkedFiles' = checkedFiles \cup {p}
    /\ UNCHANGED examined
    /\ pc' = "loop"
    /\ UNCHANGED <<agentVars, cursors, run, stopping, idx, knownSessionIds,
                   totalBytesRead, emitterVars, historyVars>>
    /\ UNCHANGED elsewhere

\* the wait-for-file loop, would it not test the stopping flag: it sleeps on
StoppedWaiting_FlagNotTested ==
    /\ pc = "wait"
    /\ stopping
    /\ UNCHANGED vars

\* run(): stopped while waiting for the file; persistAllCursors() and return
StoppedWaiting ==
    /\ pc = "wait"
    /\ stopping
    /\ persistAllCursors({})
    /\ pc' = "stopped"
    /\ UNCHANGED <<agentVars, run, stopping, order, idx, knownSessionIds, checkedFiles,
                   examined,
                   totalBytesRead, emitterVars, processed, delivered, strict>>
    /\ UNCHANGED elsewhere

\* run(): while (!this.stopping) { let totalBytesRead = 0; ...
BeginSweep ==
    /\ pc = "loop"
    /\ ~stopping
    /\ pc' = "read"
    /\ idx' = 1
    /\ totalBytesRead' = 0
    /\ UNCHANGED <<agentVars, cursors, run, stopping, files, order, knownSessionIds,
                   checkedFiles, examined, emitterVars, historyVars>>
    /\ UNCHANGED elsewhere

\* run(): totalBytesRead += await this.readNewLines(file)
SweepRead ==
    /\ pc = "read"
    /\ idx <= Len(order)
    /\ ReadFile(order[idx])
    /\ \E r \in {ReadResult(order[idx])} :
          /\ totalBytesRead' = totalBytesRead + r.ret
          /\ pc' = IF r.crashed THEN "crashed" ELSE pc
    /\ idx' = idx + 1
    /\ UNCHANGED <<agentVars, cursors, run, stopping, order, checkedFiles,
                   examined,
                   savedDelivered>>
    /\ UNCHANGED elsewhere

\* isLinkedSession was called once more on each of the candidates: whether the
\* file could be read and what the call returned
Examine(candidates, unreadable, linked) ==
    [c \in (DOMAIN examined) \cup candidates |->
        (IF c \in DOMAIN examined THEN examined[c] ELSE <<>>)
          \o (IF c \in candidates
              THEN <<[readable |-> c \notin unreadable, linked |-> c \in linked]>>
              ELSE <<>>)]

\* scanForSuccessors, would it examine every listed file and addFile set a new
\* TailedFile also for a path that is tailed
ScanForSuccessors_AddsAgain ==
    /\ pc = "read"
    /\ idx > Len(order)
    /\ \E due \in BOOLEAN :
        LET candidates == IF due /\ order # <<>> THEN DOMAIN disk ELSE {}
        IN  \E unreadable \in SUBSET candidates :
            LET linked == { c \in candidates \ unreadable :
                              isLinkedSession(disk[c], knownSessionIds) }
                fresh  == linked \ DOMAIN files
            IN  /\ checkedFiles' = checkedFiles \cup candidates
                /\ examined' = Examine(candidates, unreadable, linked)
                /\ \E added \in [1..Cardinality(fresh) -> fresh] :
                    /\ \A i, j \in DOMAIN added : i # j => added[i] # added[j]
                    /\ order' = order \o added
                /\ files' = [p \in (DOMAIN files) \cup linked |->
                                IF p \in linked THEN NewTailedFile(cursors, p)
                                ELSE files[p]]
    /\ pc' = "save"
    /\ idx' = 1
    /\ totalBytesRead' = 0
    /\ UNCHANGED <<agentVars, cursors, run, stopping, knownSessionIds, emitterVars,
                   historyVars>>
    /\ UNCHANGED elsewhere

\* scanForSuccessors, would it skip the files it tails and not the files it checked
ScanForSuccessors_Rescans ==
    /\ pc = "read"
    /\ idx > Len(order)
    /\ \E due \in BOOLEAN :
        LET candidates == IF due /\ order # <<>> THEN (DOMAIN disk) \ (DOMAIN files)
                          ELSE {}
        IN  \E unreadable \in SUBSET candidates :
            LET linked == { c \in candidates \ unreadable :
                              isLinkedSession(disk[c], knownSessionIds) }
            IN  /\ checkedFiles' = checkedFiles \cup candidates
                /\ examined' = Examine(candidates, unreadable, linked)
                /\ \E added \in [1..Cardinality(linked) -> linked] :
                    /\ \A i, j \in DOMAIN added : i # j => added[i] # added[j]
                    /\ order' = order \o added
                /\ files' = [p \in (DOMAIN files) \cup linked |->
                                IF p \in DOMAIN files THEN files[p]
                                ELSE NewTailedFile(cursors, p)]
    /\ pc' = "save"
    /\ idx' = 1
    /\ totalBytesRead' = 0
    /\ UNCHANGED <<agentVars, cursors, run, stopping, knownSessionIds, emitterVars,
                   historyVars>>
    /\ UNCHANGED elsewhere

\* Watcher.scanForSuccessors (due: SUCCESSOR_SCAN_MS have passed), then the sleep
\* when totalBytesRead is 0; the loop variables are dead from here on.  The
\* candidates are the listed files not yet in checkedFiles; isLinkedSession
\* returns false for those that cannot be read (unreadable).
ScanForSuccessors ==
    /\ pc = "read"
    /\ idx > Len(order)
    /\ \E due \in BOOLEAN :
        LET candidates == IF due /\ order # <<>> THEN (DOMAIN disk) \ checkedFiles
                          ELSE {}
        IN  \E unreadable \in SUBSET candidates :
            LET linked == { c \in candidates \ unreadable :
                              isLinkedSession(disk[c], knownSessionIds) }
            IN  /\ checkedFiles' = checkedFiles \cup candidates
                /\ examined' = Examine(candidates, unreadable, linked)
                /\ \E added \in [1..Cardinality(linked) -> linked] :
                    /\ \A i, j \in DOMAIN added : i # j => added[i] # added[j]
                    /\ order' = order \o added
                /\ files' = [p \in (DOMAIN files) \cup linked |->
                                IF p \in DOMAIN files THEN files[p]
                                ELSE NewTailedFile(cursors, p)]
    /\ pc' = "save"
    /\ idx' = 1
    /\ totalBytesRead' = 0
    /\ UNCHANGED <<agentVars, cursors, run, stopping, knownSessionIds, emitterVars,
                   historyVars>>
    /\ UNCHANGED elsewhere

\* maybeSaveCursors, would it look at the clock only
MaybeSaveCursors_TimerOnly ==
    /\ pc = "save"
    /\ \E due \in BOOLEAN :
        IF due
        THEN \E written \in SUBSET Dirty(files) : persistAllCursors(written)
        ELSE UNCHANGED <<cursors, files, savedDelivered>>
    /\ pc' = "loop"
    /\ idx' = 1
    /\ totalBytesRead' = 0
    /\ UNCHANGED <<agentVars, run, stopping, order, knownSessionIds, checkedFiles,
                   examined, emitterVars, processed, delivered, strict>>
    /\ UNCHANGED elsewhere

\* Watcher.maybeSaveCursors (due: CURSOR_SAVE_MS have passed since the last save)
MaybeSaveCursors ==
    /\ pc = "save"
    /\ \E due \in BOOLEAN :
        IF due \/ \E p \in DOMAIN files : files[p].linesSinceSave >= CURSOR_SAVE_LINES
        THEN \E written \in SUBSET Dirty(files) : persistAllCursors(written)
        ELSE UNCHANGED <<cursors, files, savedDelivered>>
    /\ pc' = "loop"
    /\ idx' = 1
    /\ totalBytesRead' = 0
    /\ UNCHANGED <<agentVars, run, stopping, order, knownSessionIds, checkedFiles,
                   examined,
                   emitterVars, processed, delivered, strict>>
    /\ UNCHANGED elsewhere

\* run(): the loop ends on the stopping flag
EndLoop ==
    /\ pc = "loop"
    /\ stopping
    /\ pc' = "drain"
    /\ idx' = 1
    /\ UNCHANGED <<agentVars, cursors, run, stopping, files, order, knownSessionIds,
                   checkedFiles, examined, totalBytesRead, emitterVars, historyVars>>
    /\ UNCHANGED elsewhere

\* run(): the final readNewLines of every file
DrainRead ==
    /\ pc = "drain"
    /\ idx <= Len(order)
    /\ ReadFile(order[idx])
    /\ \E r \in {ReadResult(order[idx])} :
          pc' = IF r.crashed THEN "crashed" ELSE pc
    /\ idx' = idx + 1
    /\ UNCHANGED <<agentVars, cursors, run, stopping, order, checkedFiles,
                   examined,
                   totalBytesRead, savedDelivered>>
    /\ UNCHANGED elsewhere

\* run(): persistAllCursors() and return
Shutdown ==
    /\ pc = "drain"
    /\ idx > Len(order)
    /\ \E written \in SUBSET Dirty(files) : persistAllCursors(written)
    /\ pc' = "stopped"
    /\ UNCHANGED <<agentVars, run, stopping, order, idx, knownSessionIds, checkedFiles,
                   examined,
                   totalBytesRead, emitterVars, processed, delivered, strict>>
    /\ UNCHANGED elsewhere

\* SIGTERM or SIGINT: the shutdown handler of run()
Signal ==
    /\ Running
    /\ ~stopping
    /\ stopping' = TRUE
    /\ UNCHANGED <<agentVars, cursors, pc, run, files, order, idx, knownSessionIds,
                   checkedFiles, examined, totalBytesRead, emitterVars, historyVars>>
    /\ UNCHANGED elsewhere

\* the process ends without running its shutdown path (SIGKILL, power loss)
Kill ==
    /\ Running
    /\ pc' = "killed"
    /\ UNCHANGED <<agentVars, cursors, run, stopping, files, order, idx,
                   knownSessionIds, checkedFiles, examined, totalBytesRead, emitterVars,
                   historyVars>>
    /\ UNCHANGED elsewhere

Next ==
    \/ \E p \in Paths : AgentAppend(p)
    \/ StartWatcher
    \/ \E p \in Paths : FoundSessionFile(p)
    \/ StoppedWaiting
    \/ BeginSweep
    \/ SweepRead
    \/ ScanForSuccessors
    \/ MaybeSaveCursors
    \/ EndLoop
    \/ DrainRead
    \/ Shutdown
    \/ Signal
    \/ Kill

Spec == Init /\ [][Next]_vars

-----------------------------------------------------------------------------
(* One watcher process while the tracker comes and goes.                   *)

\* the tracker becomes unreachable, or reachable again, before a read (only the
\* writes of a read meet the tracker)
TrackerFlip ==
    /\ pc = "read"
    /\ idx <= Len(order)
    /\ down' = ~down
    /\ UNCHANGED <<agentVars, cursors, watcherVars, emitterVars, historyVars,
                   limiterVars, lockVars, signals>>

\* one watcher process, from its start on, for as long as it is not stopped
NextOutage ==
    \/ \E p \in Paths : AgentAppend(p)
    \/ (run = 0 /\ StartWatcher)
    \/ \E p \in Paths : FoundSessionFile(p)
    \/ BeginSweep
    \/ SweepRead
    \/ ScanForSuccessors
    \/ MaybeSaveCursors
    \/ TrackerFlip

SpecOutage == Init /\ [][NextOutage]_vars

-----------------------------------------------------------------------------
(* One watcher process on a journal that holds lines of every kind.        *)

MaxChunk == 3   \* lines of the journal

\* a line cut short, which JSON.parse rejects
Malformed == <<"{", "A">>

\* the lines a journal may hold
LineKinds == { Stringify("A"), Stringify("B"), Stringify("M"), Malformed } \cup JsonPrimitives

RECURSIVE JoinLines(_)
JoinLines(lines) ==
    IF lines = <<>> THEN <<>> ELSE Head(lines) \o <<"\n">> \o JoinLines(Tail(lines))

LineJournals == { JoinLines(ls) : ls \in [1..MaxChunk -> LineKinds] }

InitLines ==
    /\ disk \in [Paths -> LineJournals]
    /\ todo = [p \in Paths |-> <<>>]
    /\ cursors = EmptyMap
    /\ pc = "idle"
    /\ run = 0
    /\ stopping = FALSE
    /\ files = EmptyMap
    /\ order = <<>>
    /\ idx = 1
    /\ knownSessionIds = {}
    /\ checkedFiles = {}
    /\ examined = EmptyMap
    /\ totalBytesRead = 0
    /\ SetEmitterInit
    /\ SetLimiterInit(2, 5)
    /\ down = FALSE
    /\ SetLockInit
    /\ signals = 0
    /\ processed = <<>>
    /\ delivered = EmptyMap
    /\ savedDelivered = [p \in Paths |-> {}]
    /\ strict = TRUE

NextLines ==
    \/ (run = 0 /\ StartWatcher)
    \/ \E p \in Paths : FoundSessionFile(p)
    \/ BeginSweep
    \/ SweepRead
    \/ ScanForSuccessors
    \/ MaybeSaveCursors

SpecLines == InitLines /\ [][NextLines]_vars

-----------------------------------------------------------------------------
(* The successor scanner: the project directory holds the journal F1 and   *)
(* other session files, which scanForSuccessors examines.                  *)

\* the other *.jsonl files of the project directory
Successors == {"F2", "F3"}

\* n lines of entries without a sessionId, then one line of the entry named last
Deep(n, last) == Jsonl([i \in 1..(n + 1) |-> IF i <= n THEN "A" ELSE last])

\* what a successor file may hold: a matching first line, a session not yet known,
\* malformed JSON, the match on line 6, a blank line and the match on the fifth
\* line that is not blank, nothing, a JSON null before the match
SuccessorHeads ==
    { Jsonl(<<"B">>),
      Jsonl(<<"L">>),
      Malformed \o <<"\n">>,
      Deep(MAX_LINK_CHECK_LINES, "B"),
      <<"\n">> \o Deep(MAX_LINK_CHECK_LINES - 1, "B"),
      <<>>,
      <<"null", "\n">> \o Jsonl(<<"B">>) }

InitScan ==
    /\ disk \in { d \in [Paths \cup Successors -> SuccessorHeads] :
                    /\ \A p \in Paths : d[p] = Jsonl(<<"B">>)
                    /\ d["F3"] = Jsonl(<<"L">>) }
    /\ todo = [p \in Paths |-> Jsonl(<<"L">>)]
    /\ cursors = EmptyMap
    /\ pc = "idle"
    /\ run = 0
    /\ stopping = FALSE
    /\ files = EmptyMap
    /\ order = <<>>
    /\ idx = 1
    /\ knownSessionIds = {}
    /\ checkedFiles = {}
    /\ examined = EmptyMap
    /\ totalBytesRead = 0
    /\ SetEmitterInit
    /\ SetLimiterInit(2, 5)
    /\ down = FALSE
    /\ SetLockInit
    /\ signals = 0
    /\ processed = <<>>
    /\ delivered = EmptyMap
    /\ savedDelivered = [p \in Paths |-> {}]
    /\ strict = TRUE

\* one watcher process in its main loop, the agent writing the journal on
NextScan ==
    \/ \E p \in Paths : AgentAppend(p)
    \/ (run = 0 /\ StartWatcher)
    \/ \E p \in Paths : FoundSessionFile(p)
    \/ BeginSweep
    \/ SweepRead
    \/ ScanForSuccessors
    \/ MaybeSaveCursors

SpecScan == InitScan /\ [][NextScan]_vars

-----------------------------------------------------------------------------
(* The watcher on a journal whose lines each cause tracker writes: a text, *)
(* a thinking block, a TaskCreate tool_use and its successful tool_result. *)

\* the journals written: two lines, each with writes of its own
OrderJournals == { <<"U", "R">>, <<"B", "U">>, <<"L", "B">> }

InitOrder ==
    /\ disk = EmptyMap
    /\ todo \in [Paths -> { Jsonl(names) : names \in OrderJournals }]
    /\ cursors = EmptyMap
    /\ pc = "idle"
    /\ run = 0
    /\ stopping = FALSE
    /\ files = EmptyMap
    /\ order = <<>>
    /\ idx = 1
    /\ knownSessionIds = {}
    /\ checkedFiles = {}
    /\ examined = EmptyMap
    /\ totalBytesRead = 0
    /\ SetEmitterInit
    /\ SetLimiterInit(2, 5)
    /\ down = FALSE
    /\ SetLockInit
    /\ signals = 0
    /\ processed = <<>>
    /\ delivered = EmptyMap
    /\ savedDelivered = [p \in Paths |-> {}]
    /\ strict = TRUE

NextOrder ==
    \/ \E p \in Paths : AgentAppend(p)
    \/ (run = 0 /\ StartWatcher)
    \/ \E p \in Paths : FoundSessionFile(p)
    \/ BeginSweep
    \/ SweepRead
    \/ ScanForSuccessors
    \/ MaybeSaveCursors

SpecOrder == InitOrder /\ [][NextOrder]_vars

-----------------------------------------------------------------------------
(* The watcher on a journal long enough for the cursor save that the count *)
(* of unsaved lines sets off.                                              *)

\* a journal of n summary lines
SummaryLines(n) == Jsonl([i \in 1..n |-> "A"])

\* one readNewLines call of run() on the tailed file p, whatever the length of the
\* file
ReadWhole(p) ==
    \E r \in {ReadResult(p)} :
        /\ files' = [files EXCEPT ![p] = r.file]
        /\ knownSessionIds' = r.known
        /\ SetEmitter(r.st)
        /\ processed' = r.processed
        /\ delivered' = r.delivered
        /\ strict' = (strict /\ ~CaughtUp(p))

\* run(): totalBytesRead += await this.readNewLines(file)
SweepReadWhole ==
    /\ pc = "read"
    /\ idx <= Len(order)
    /\ ReadWhole(order[idx])
    /\ \E r \in {ReadResult(order[idx])} :
          /\ totalBytesRead' = totalBytesRead + r.ret
          /\ pc' = IF r.crashed THEN "crashed" ELSE pc
    /\ idx' = idx + 1
    /\ UNCHANGED <<agentVars, cursors, run, stopping, order, checkedFiles, examined,
                   savedDelivered>>
    /\ UNCHANGED elsewhere

\* the journal holds one line less than CURSOR_SAVE_LINES, as many, or one more
\* when the watcher starts, and the agent writes one more line
InitCadence ==
    /\ disk \in [Paths -> { SummaryLines(n) :
                             n \in (CURSOR_SAVE_LINES - 1)..(CURSOR_SAVE_LINES + 1) }]
    /\ todo = [p \in Paths |-> Jsonl(<<"B">>)]
    /\ cursors = EmptyMap
    /\ pc = "idle"
    /\ run = 0
    /\ stopping = FALSE
    /\ files = EmptyMap
    /\ order = <<>>
    /\ idx = 1
    /\ knownSessionIds = {}
    /\ checkedFiles = {}
    /\ examined = EmptyMap
    /\ totalBytesRead = 0
    /\ SetEmitterInit
    /\ SetLimiterInit(2, 5)
    /\ down = FALSE
    /\ SetLockInit
    /\ signals = 0
    /\ processed = <<>>
    /\ delivered = EmptyMap
    /\ savedDelivered = [p \in Paths |-> {}]
    /\ strict = TRUE

NextCadence ==
    \/ \E p \in Paths : AgentAppend(p)
    \/ (run = 0 /\ StartWatcher)
    \/ \E p \in Paths : FoundSessionFile(p)
    \/ BeginSweep
    \/ SweepReadWhole
    \/ ScanForSuccessors
    \/ MaybeSaveCursors

SpecCadence == InitCadence /\ [][NextCadence]_vars

-----------------------------------------------------------------------------
(* Watcher processes started one after the other on one journal: a task    *)
(* is created and then updated, and a process may be killed at any point   *)
(* and the next one resumes from the cursors the killed one had saved.     *)

\* the journal written: TaskCreate and its result, TaskUpdate and its result
RestartJournal == <<"U", "R", "V", "W">>

\* the agent writes the next record of its journal, the whole line at once
AgentAppendLine(p) ==
    /\ todo[p] # <<>>
    /\ \E k \in 1..Len(todo[p]) :
        /\ todo[p][k] = "\n"
        /\ \A j \in 1..(k - 1) : todo[p][j] # "\n"
        /\ disk' = MapSet(disk, p, (IF p \in DOMAIN disk THEN disk[p] ELSE <<>>)
                                   \o SubSeq(todo[p], 1, k))
        /\ todo' = [todo EXCEPT ![p] = SubSeq(@, k + 1, Len(@))]
    /\ UNCHANGED <<cursors, watcherVars, emitterVars, historyVars>>
    /\ UNCHANGED elsewhere

InitRestart ==
    /\ disk = EmptyMap
    /\ todo = [p \in Paths |-> Jsonl(RestartJournal)]
    /\ cursors = EmptyMap
    /\ pc = "idle"
    /\ run = 0
    /\ stopping = FALSE
    /\ files = EmptyMap
    /\ order = <<>>
    /\ idx = 1
    /\ knownSessionIds = {}
    /\ checkedFiles = {}
    /\ examined = EmptyMap
    /\ totalBytesRead = 0
    /\ SetEmitterInit
    /\ SetLimiterInit(2, 5)
    /\ down = FALSE
    /\ SetLockInit
    /\ signals = 0
    /\ processed = <<>>
    /\ delivered = EmptyMap
    /\ savedDelivered = [p \in Paths |-> {}]
    /\ strict = TRUE

NextRestart ==
    \/ \E p \in Paths : AgentAppendLine(p)
    \/ StartWatcher
    \/ \E p \in Paths : FoundSessionFile(p)
    \/ BeginSweep
    \/ SweepReadWhole
    \/ ScanForSuccessors
    \/ MaybeSaveCursors
    \/ Kill

SpecRestart == InitRestart /\ [][NextRestart]_vars

-----------------------------------------------------------------------------
(* One watcher process and the signals sent to it; nothing kills it.       *)

MaxSignals == 1   \* signals sent after the first one

\* the shutdown handler of run() when stopping is set: if (this.stopping) return
SignalAgain ==
    /\ Running
    /\ stopping
    /\ signals < MaxSignals
    /\ signals' = signals + 1
    /\ UNCHANGED <<agentVars, cursors, watcherVars, emitterVars, historyVars,
                   trackerVars, limiterVars, lockVars>>

\* the agent writes its journal in the order of JournalOrder
InitCancel ==
    /\ Init
    /\ \A p \in Paths : todo[p] = Jsonl(SubSeq(JournalOrder, 1, Min(MaxLines, Len(JournalOrder))))

\* the steps of run() but its reads
RunStep ==
    \/ StoppedWaiting
    \/ BeginSweep
    \/ ScanForSuccessors
    \/ MaybeSaveCursors
    \/ EndLoop
    \/ Shutdown

\* the reads of run()
RunRead == SweepRead \/ DrainRead

\* the read of the tailed file p exceeds what the model holds of a file
ReadCutOff(p) ==
    \/ Len(ReadResult(p).file.lineBuffer) > MaxBuffer
    \/ ReadResult(p).file.lineCount > MaxCount

\* ENABLED RunRead
CanRead == pc \in {"read", "drain"} /\ idx <= Len(order) /\ ~ReadCutOff(order[idx])

NextCancel ==
    \/ \E p \in Paths : AgentAppend(p)
    \/ (run = 0 /\ StartWatcher)
    \/ \E p \in Paths : FoundSessionFile(p)
    \/ RunStep
    \/ RunRead
    \/ Signal
    \/ SignalAgain

\* the sleeps of run() end, its reads and writes return: weak fairness of RunStep
\* and of RunRead
SpecCancel ==
    /\ InitCancel /\ [][NextCancel]_vars
    /\ WF_vars(RunStep)
    /\ ([]<>(~CanRead) \/ []<><<RunRead>>_vars)

-----------------------------------------------------------------------------
(* The projector on its own: a new ActivityEmitter is handed entries one   *)
(* at a time, as tests/emitter.test.ts drives it.                          *)

MaxEntries == 4    \* entries handed to one ActivityEmitter

\* an assistant entry with one content block
assistant(block) ==
    [type |-> "assistant", uuid |-> "uuid-1", sessionId |-> "session-1",
     message |-> [content |-> <<block>>]]

\* a user entry whose content is an array of tool_result blocks, without a
\* sourceToolAssistantUUID (tests/emitter.test.ts userEntry)
userEntry(results) ==
    [type |-> "user", uuid |-> "uuid-1", sessionId |-> "session-1",
     message |-> [content |-> results, contentIsString |-> FALSE]]

\* the user entry the agent writes for tool results: it names the assistant
\* entry that asked for the tool
toolResultEntry(results) ==
    [type |-> "user", uuid |-> "uuid-1", sessionId |-> "session-1",
     sourceToolAssistantUUID |-> "uuid-0",
     message |-> [content |-> results, contentIsString |-> FALSE]]

toolUse(id, name, input) ==
    [type |-> "tool_use", id |-> id, name |-> name, input |-> input]

toolResult(id, content) ==
    [type |-> "tool_result", tool_use_id |-> id, content |-> content,
     contentIsString |-> TRUE]

toolFailure(id, content) ==
    [type |-> "tool_result", tool_use_id |-> id, content |-> content,
     contentIsString |-> TRUE, is_error |-> TRUE]

\* the entries handed to the projector
EmitterEntries ==
    { assistant(toolUse("tu-1", "Bash", [command |-> "ls"])),
      assistant(toolUse("tu-2", "SomeUnknownTool", [foo |-> "bar"])),
      assistant(toolUse("tu-3", "TaskCreate", [subject |-> "Write tests"])),
      toolResultEntry(<<toolResult("tu-1", <<"file.txt">>)>>),
      toolResultEntry(<<toolFailure("tu-1", <<"boom">>)>>),
      toolResultEntry(<<toolResult("tu-1", <<"file.txt">>),
                        toolResult("tu-1", <<"again">>)>>),
      toolResultEntry(<<toolResult("tu-2", <<"result">>)>>),
      toolResultEntry(<<toolFailure("tu-2", <<"boom">>)>>),
      toolResultEntry(<<toolResult("tu-2", <<"<tool_use_error>", "bad input">>)>>),
      toolResultEntry(<<toolResult("tu-3", <<"Task #1", " created">>)>>),
      toolResultEntry(<<toolResult("nonexistent", <<"whatever">>)>>),
      userEntry(<<toolResult("tu-1", <<"file.txt">>)>>),
      userEntry(<<toolResult("tu-3", <<"Task #1", " created">>)>>) }

InitEmitter ==
    /\ disk = EmptyMap
    /\ todo = [p \in Paths |-> <<>>]
    /\ cursors = EmptyMap
    /\ pc = "emitter"
    /\ run = 0
    /\ stopping = FALSE
    /\ files = EmptyMap
    /\ order = <<>>
    /\ idx = 1
    /\ knownSessionIds = {}
    /\ checkedFiles = {}
    /\ examined = EmptyMap
    /\ totalBytesRead = 0
    /\ SetEmitterInit
    /\ SetLimiterInit(2, 5)
    /\ down = FALSE
    /\ SetLockInit
    /\ signals = 0
    /\ processed = <<>>
    /\ delivered = EmptyMap
    /\ savedDelivered = [p \in Paths |-> {}]
    /\ strict = TRUE

\* ActivityEmitter.process(entry, client)
Process(entry) ==
    /\ pc = "emitter"
    /\ Len(processed) < MaxEntries
    /\ SetEmitter(process(EmitterState, entry))
    /\ processed' = Append(processed, [path |-> "-", line |-> <<>>, entry |-> entry,
                                       threw |-> process(EmitterState, entry).thrown])
    /\ UNCHANGED <<agentVars, cursors, watcherVars, delivered, savedDelivered, strict>>
    /\ UNCHANGED elsewhere

NextEmitter == \E entry \in EmitterEntries : Process(entry)

SpecEmitter == InitEmitter /\ [][NextEmitter]_vars

-----------------------------------------------------------------------------
(* The projector handed the records of the plan tools, with the tracker    *)
(* reachable or not.                                                       *)

\* the tools whose results feed the plan reducer
PlanTools == {"TaskCreate", "TaskUpdate", "TodoWrite"}

PlanEntries ==
    { assistant(toolUse("tu-1", "Bash", [command |-> "ls"])),
      assistant(toolUse("tu-3", "TaskCreate", [subject |-> "Write tests"])),
      assistant(toolUse("tu-4", "TaskUpdate", [taskId |-> "1", status |-> "in_progress"])),
      assistant(toolUse("tu-5", "TodoWrite",
                        [todos |-> <<[content |-> "Plan", status |-> "pending"]>>])),
      toolResultEntry(<<toolResult("tu-1", <<"file.txt">>)>>),
      toolResultEntry(<<toolResult("tu-3", <<"Task #1", " created">>)>>),
      toolResultEntry(<<toolFailure("tu-3", <<"Task #1", " failed">>)>>),
      toolResultEntry(<<toolResult("tu-3", <<"<tool_use_error>", "Task #1">>)>>),
      toolResultEntry(<<toolResult("tu-4", <<"Updated">>)>>),
      toolResultEntry(<<toolFailure("tu-4", <<"no such task">>)>>),
      toolResultEntry(<<toolResult("tu-5", <<"Todos saved">>)>>),
      JournalEntry("A") }

InitPlan ==
    /\ disk = EmptyMap
    /\ todo = [p \in Paths |-> <<>>]
    /\ cursors = EmptyMap
    /\ pc = "emitter"
    /\ run = 0
    /\ stopping = FALSE
    /\ files = EmptyMap
    /\ order = <<>>
    /\ idx = 1
    /\ knownSessionIds = {}
    /\ checkedFiles = {}
    /\ examined = EmptyMap
    /\ totalBytesRead = 0
    /\ SetEmitterInit
    /\ SetLimiterInit(2, 5)
    /\ down \in BOOLEAN
    /\ SetLockInit
    /\ signals = 0
    /\ processed = <<>>
    /\ delivered = EmptyMap
    /\ savedDelivered = [p \in Paths |-> {}]
    /\ strict = TRUE

NextPlan == \E entry \in PlanEntries : Process(entry)

SpecPlan == InitPlan /\ [][NextPlan]_vars

-----------------------------------------------------------------------------
(* The projector handed the tool calls that empty the plan.                *)

MirrorEntries ==
    { assistant(toolUse("tu-3", "TaskCreate", [subject |-> "Write tests"])),
      assistant(toolUse("tu-4", "TaskUpdate", [taskId |-> "1", status |-> "deleted"])),
      assistant(toolUse("tu-5", "TodoWrite", [todos |-> <<>>])),
      toolResultEntry(<<toolResult("tu-3", <<"Task #1", " created">>)>>),
      toolResultEntry(<<toolResult("tu-4", <<"Updated">>)>>),
      toolResultEntry(<<toolResult("tu-5", <<"Todos saved">>)>>) }

NextMirror == \E entry \in MirrorEntries : Process(entry)

SpecMirror == InitPlan /\ [][NextMirror]_vars

-----------------------------------------------------------------------------
(* The projector handed one record of every kind that writes an activity:  *)
(* the records carry a sessionId of their own.                             *)

KindEntries ==
    { assistant([type |-> "thinking", thinking |-> <<"Let me analyze...">>]),
      assistant([type |-> "text", text |-> <<"Here is the answer.">>]),
      assistant(toolUse("tu-1", "Bash", [command |-> "ls"])),
      toolResultEntry(<<toolResult("tu-1", <<"file.txt">>)>>),
      toolResultEntry(<<toolFailure("tu-1", <<"boom">>)>>),
      [type |-> "summary", summary |-> <<"Session summary">>, leafUuid |-> "leaf-1"],
      [type |-> "queue-operation", operation |-> "enqueue", sessionId |-> "session-1",
       content |-> <<"<summary>", "Build failed", "</summary>",
                     "<status>", "failed", "</status>">>],
      [type |-> "user", uuid |-> "uuid-1", sessionId |-> "session-1",
       message |-> [content |-> <<"<prompt>", "Do this", "</prompt>">>,
                    contentIsString |-> TRUE]],
      [type |-> "assistant", uuid |-> "uuid-1", sessionId |-> "session-1",
       isApiErrorMessage |-> TRUE,
       message |-> [content |-> <<[type |-> "text", text |-> <<"Overloaded">>]>>]] }

NextKinds == \E entry \in KindEntries : Process(entry)

SpecKinds == InitEmitter /\ [][NextKinds]_vars

-----------------------------------------------------------------------------
(* The PlanTracker on its own, called with inputs of every kind, as        *)
(* tests/plan-tracker.test.ts calls it.                                    *)

MaxOps == 3   \* calls made on one PlanTracker

\* the result texts of TaskCreate
CreateTexts == { <<"Task #1", " created">>, <<"Task #2", " created">>, <<"created">> }

\* the inputs of TaskCreate
CreateInputs == { [subject |-> "First"] }

\* the inputs of TaskUpdate: a known status, deleted, a status the table does not
\* hold, a name every object inherits, a new subject, no taskId
UpdateInputs ==
    { [taskId |-> id, status |-> st] :
        id \in {"1", "2"}, st \in {"in_progress", "deleted", "blocked", "constructor"} }
    \cup { [taskId |-> id, subject |-> "Renamed"] : id \in {"1", "2"} }
    \cup { [status |-> "completed"] }

\* the inputs of TodoWrite
TodoInputs ==
    { [other |-> "x"],
      [todos |-> <<>>],
      [todos |-> <<[content |-> "x", status |-> "unknown_status"]>>],
      [todos |-> <<[content |-> "a", status |-> "completed"], [content |-> "b"]>>] }

\* one call in the history of the tracker
PlanCall(call, input, resultText) ==
    [path |-> "-", line |-> resultText, threw |-> FALSE,
     entry |-> [call |-> call, input |-> input]]

InitReducer ==
    /\ disk = EmptyMap
    /\ todo = [p \in Paths |-> <<>>]
    /\ cursors = EmptyMap
    /\ pc = "reducer"
    /\ run = 0
    /\ stopping = FALSE
    /\ files = EmptyMap
    /\ order = <<>>
    /\ idx = 1
    /\ knownSessionIds = {}
    /\ checkedFiles = {}
    /\ examined = EmptyMap
    /\ totalBytesRead = 0
    /\ SetEmitterInit
    /\ SetLimiterInit(2, 5)
    /\ down = FALSE
    /\ SetLockInit
    /\ signals = 0
    /\ processed = <<>>
    /\ delivered = EmptyMap
    /\ savedDelivered = [p \in Paths |-> {}]
    /\ strict = TRUE

\* what a call of the tracker leaves alone
reducerElsewhere == <<agentVars, cursors, watcherVars, pendingToolUses, activities,
                      planUpdates, causes, io, delivered, savedDelivered, strict,
                      elsewhere>>

CallTaskCreate(input, resultText) ==
    /\ pc = "reducer"
    /\ Len(processed) < MaxOps
    /\ tasks' = handleTaskCreate(tasks, input, resultText)
    /\ processed' = Append(processed, PlanCall("handleTaskCreate", input, resultText))
    /\ UNCHANGED reducerElsewhere

CallTaskUpdate(input) ==
    /\ pc = "reducer"
    /\ Len(processed) < MaxOps
    /\ tasks' = handleTaskUpdate(tasks, input)
    /\ processed' = Append(processed, PlanCall("handleTaskUpdate", input, <<>>))
    /\ UNCHANGED reducerElsewhere

CallTodoWrite(input) ==
    /\ pc = "reducer"
    /\ Len(processed) < MaxOps
    /\ tasks' = handleTodoWrite(tasks, input)
    /\ processed' = Append(processed, PlanCall("handleTodoWrite", input, <<>>))
    /\ UNCHANGED reducerElsewhere

NextReducer ==
    \/ \E input \in CreateInputs, resultText \in CreateTexts : CallTaskCreate(input, resultText)
    \/ \E input \in UpdateInputs : CallTaskUpdate(input)
    \/ \E input \in TodoInputs : CallTodoWrite(input)

SpecReducer == InitReducer /\ [][NextReducer]_vars

-----------------------------------------------------------------------------
(* One RateLimiter called by any number of callers at any time, as         *)
(* tests/rate-limiter.test.ts drives it with fake timers.                  *)

MaxAcquires == 3   \* acquire() calls made on the limiter
MaxTicks == 5      \* advances of the clock

\* jest.advanceTimersByTime(500)
AdvanceMs == 500

\* the last instant of the clock
Horizon == MaxTicks * AdvanceMs

\* the { perSecond, burst } the limiter is built with
LimiterConfigs == { [perSecond |-> 1, burst |-> 1], [perSecond |-> 2, burst |-> 2] }

\* everything but the limiter
limiterElsewhere == <<agentVars, cursors, watcherVars, emitterVars, trackerVars,
                      lockVars, signals, processed, delivered, savedDelivered, strict>>

InitLimiter ==
    /\ disk = EmptyMap
    /\ todo = [p \in Paths |-> <<>>]
    /\ cursors = EmptyMap
    /\ pc = "limiter"
    /\ run = 0
    /\ stopping = FALSE
    /\ files = EmptyMap
    /\ order = <<>>
    /\ idx = 1
    /\ knownSessionIds = {}
    /\ checkedFiles = {}
    /\ examined = EmptyMap
    /\ totalBytesRead = 0
    /\ SetEmitterInit
    /\ \E cfg \in LimiterConfigs : SetLimiterInit(cfg.perSecond, cfg.burst)
    /\ down = FALSE
    /\ SetLockInit
    /\ signals = 0
    /\ processed = <<>>
    /\ delivered = EmptyMap
    /\ savedDelivered = [p \in Paths |-> {}]
    /\ strict = TRUE

\* setTimeout(resolve, waitMs) set at any time is never due
Due_Never(due, t) == FALSE

\* a setTimeout due at time due has run out at time t
Due(due, t) == t >= due

\* the pending timer that fires next: the earliest due, the oldest among equals
NextTimer ==
    CHOOSE c \in DOMAIN timers :
        \A d \in DOMAIN timers :
            timers[c].due < timers[d].due \/ (timers[c].due = timers[d].due /\ c <= d)

\* RateLimiter.acquire up to its return or its await
AcquireCall ==
    /\ pc = "limiter"
    /\ calls < MaxAcquires
    /\ LET rl == refill(rateLimiter, now)
           c  == calls + 1
       IN  /\ calls' = c
           /\ IF rl.tokens >= Token
              THEN /\ rateLimiter' = [rl EXCEPT !.tokens = @ - Token]
                   /\ acquired' = Append(acquired, [call |-> c, calledAt |-> now,
                                                    at |-> now, waited |-> FALSE])
                   /\ timers' = timers
              ELSE /\ now + waitMs(rl) <= Horizon
                   /\ rateLimiter' = rl
                   /\ timers' = MapSet(timers, c, [due |-> now + waitMs(rl),
                                                   calledAt |-> now])
                   /\ acquired' = acquired
    /\ UNCHANGED <<now, limiterElsewhere>>

\* RateLimiter.acquire from the end of its await to its return
AcquireResume ==
    /\ pc = "limiter"
    /\ timers # EmptyMap
    /\ Due(timers[NextTimer].due, now)
    /\ rateLimiter' = [refill(rateLimiter, now) EXCEPT !.tokens = @ - Token]
    /\ acquired' = Append(acquired, [call |-> NextTimer,
                                     calledAt |-> timers[NextTimer].calledAt,
                                     at |-> now, waited |-> TRUE])
    /\ timers' = MapDelete(timers, NextTimer)
    /\ UNCHANGED <<now, calls, limiterElsewhere>>

\* time advances
Tick ==
    /\ pc = "limiter"
    /\ now + AdvanceMs <= Horizon
    /\ now' = now + AdvanceMs
    /\ UNCHANGED <<rateLimiter, timers, calls, acquired, limiterElsewhere>>

NextLimiter == AcquireCall \/ AcquireResume \/ Tick

SpecLimiter == InitLimiter /\ [][NextLimiter]_vars

\* time advances and the event loop runs the timers that are due
SpecLimiterLive ==
    SpecLimiter /\ WF_vars(Tick) /\ WF_vars(AcquireResume)

-----------------------------------------------------------------------------
(* The processes of one host that call acquireLock(sessionId), each once   *)
(* (cli.ts, watch claude), their file system calls interleaved.            *)

\* everything but the lock
lockElsewhere == <<agentVars, cursors, watcherVars, emitterVars, trackerVars, signals,
                   limiterVars, processed, delivered, savedDelivered, strict>>

\* the lock files a process can find when it starts
LockFilesAtStart == { NoFile, LockInfo(0, StalePid), LockInfo(0, HolderPid), Unparsable(0) }

InitLock ==
    /\ disk = EmptyMap
    /\ todo = [p \in Paths |-> <<>>]
    /\ cursors = EmptyMap
    /\ pc = "lock"
    /\ run = 0
    /\ stopping = FALSE
    /\ files = EmptyMap
    /\ order = <<>>
    /\ idx = 1
    /\ knownSessionIds = {}
    /\ checkedFiles = {}
    /\ examined = EmptyMap
    /\ totalBytesRead = 0
    /\ SetEmitterInit
    /\ SetLimiterInit(2, 5)
    /\ down = FALSE
    /\ signals = 0
    /\ lockFile \in LockFilesAtStart
    /\ alive = Procs \cup {HolderPid}
    /\ lockPc = [p \in Procs |-> "start"]
    /\ lockRead = [p \in Procs |-> 0]
    /\ lockResult = [p \in Procs |-> "none"]
    /\ lockBefore = [p \in Procs |-> [file |-> NoFile, live |-> {}]]
    /\ processed = <<>>
    /\ delivered = EmptyMap
    /\ savedDelivered = [p \in Paths |-> {}]
    /\ strict = TRUE

\* process p moves to position to
Goto(p, to) == lockPc' = [lockPc EXCEPT ![p] = to]

\* acquireLock of process p returns value
ReturnLock(p, value) ==
    /\ Goto(p, "done")
    /\ lockResult' = [lockResult EXCEPT ![p] = value]

\* mkdirSync(LOCK_DIR); if (existsSync(path))
Exists(p) ==
    /\ pc = "lock"
    /\ lockPc[p] = "start"
    /\ p \in alive
    /\ Goto(p, IF existsSync(lockFile) THEN "read" ELSE "write")
    /\ lockBefore' = [lockBefore EXCEPT ![p] = [file |-> lockFile, live |-> alive]]
    /\ UNCHANGED <<lockFile, alive, lockRead, lockResult, lockElsewhere>>

\* readFileSync(path); JSON.parse(content): both throw into the catch
ReadLock(p) ==
    /\ pc = "lock"
    /\ lockPc[p] = "read"
    /\ p \in alive
    /\ IF lockFile.kind = "json"
         THEN /\ Goto(p, "probe")
              /\ lockRead' = [lockRead EXCEPT ![p] = lockFile.pid]
         ELSE /\ Goto(p, "rm")
              /\ UNCHANGED lockRead
    /\ UNCHANGED <<lockFile, alive, lockResult, lockBefore, lockElsewhere>>

\* if (isProcessAlive(lock.pid)) return false
Probe(p) ==
    /\ pc = "lock"
    /\ lockPc[p] = "probe"
    /\ p \in alive
    /\ IF isProcessAlive(lockRead[p], alive)
         THEN ReturnLock(p, "false")
         ELSE Goto(p, "rm") /\ UNCHANGED lockResult
    /\ UNCHANGED <<lockFile, alive, lockRead, lockBefore, lockElsewhere>>

\* rmSync(path, { force: true }), of the try and of the catch
Remove(p) ==
    /\ pc = "lock"
    /\ lockPc[p] = "rm"
    /\ p \in alive
    /\ lockFile' = NoFile
    /\ Goto(p, "write")
    /\ UNCHANGED <<alive, lockRead, lockResult, lockBefore, lockElsewhere>>

\* writeFileSync(path, ..., { flag: 'wx' }): the open that creates the file,
\* or fails when a file is there
OpenExclusive(p) ==
    /\ pc = "lock"
    /\ lockPc[p] = "write"
    /\ p \in alive
    /\ IF existsSync(lockFile)
         THEN ReturnLock(p, "false") /\ UNCHANGED lockFile
         ELSE /\ lockFile' = Created(p)
              /\ Goto(p, "fill")
              /\ UNCHANGED lockResult
    /\ UNCHANGED <<alive, lockRead, lockBefore, lockElsewhere>>

\* writeFileSync: the write to the file it opened, wherever that file is now;
\* return true
WriteLock(p) ==
    /\ pc = "lock"
    /\ lockPc[p] = "fill"
    /\ p \in alive
    /\ lockFile' = IF existsSync(lockFile) /\ lockFile.ino = p
                     THEN LockInfo(p, p) ELSE lockFile
    /\ ReturnLock(p, "true")
    /\ UNCHANGED <<alive, lockRead, lockBefore, lockElsewhere>>

\* a process of the host ends; nothing removes its lock file
Exit(q) ==
    /\ pc = "lock"
    /\ q \in alive
    /\ alive' = alive \ {q}
    /\ UNCHANGED <<lockFile, lockPc, lockRead, lockResult, lockBefore, lockElsewhere>>

\* no call of acquireLock is under way
Quiet == \A p \in Procs : lockPc[p] \in {"start", "done"} \/ p \notin alive

NextLock ==
    \/ \E p \in Procs :
          Exists(p) \/ ReadLock(p) \/ Probe(p) \/ Remove(p) \/ OpenExclusive(p) \/ WriteLock(p)
    \/ \E q \in Procs \cup {HolderPid} : Exit(q)

SpecLock == InitLock /\ [][NextLock]_vars

\* the same processes, one call of acquireLock at a time
NextLockSerial ==
    \/ \E p \in Procs : Quiet /\ Exists(p)
    \/ \E p \in Procs :
          ReadLock(p) \/ Probe(p) \/ Remove(p) \/ OpenExclusive(p) \/ WriteLock(p)
    \/ \E q \in Procs \cup {HolderPid} : Quiet /\ Exit(q)

SpecLockSerial == InitLock /\ [][NextLockSerial]_vars

-----------------------------------------------------------------------------
(* Properties of the tailer and the cursor store.                          *)

\* the positions of the newlines of content
LineEnds(content) == { b \in 1..Len(content) : content[b] = "\n" }

\* the line of content that the newline at b ends
LineAt(content, b) ==
    LET before == { e \in LineEnds(content) : e < b }
        start  == IF before = {} THEN 0 ELSE CHOOSE e \in before : \A f \in before : f <= e
    IN  SubSeq(content, start + 1, b - 1)

\* the complete lines of content that hold an entry, in file order
RECURSIVE EntryLines(_)
EntryLines(lines) ==
    IF lines = <<>> THEN <<>>
    ELSE LET t == Trim(Head(lines))
         IN  (IF t # <<>> /\ JSONparse(t).ok THEN <<t>> ELSE <<>>) \o EntryLines(Tail(lines))

CompleteEntryLines(content) ==
    LET sp == Split(content) IN EntryLines(SubSeq(sp, 1, Len(sp) - 1))

\* what this process has handed to the projector from file p, in order
ProcessedOf(p) == SelectSeq(processed, LAMBDA x : x.path = p)

\* what one readNewLines call over the whole of content hands to the projector
OneShot(p, content) ==
    readNewLines([file |-> NewTailedFile(EmptyMap, p), known |-> {SessionId},
                  st |-> NewEmitter, processed |-> <<>>, delivered |-> EmptyMap,
                  ret |-> 0, crashed |-> FALSE],
                 content).processed

\* C1: partial-line safety.  A watcher that started at offset 0 and called
\* readNewLines after each append, the chunks ending anywhere, has handed the
\* projector exactly the records that one readNewLines over the same content hands it.
C1_PartialLineSafety ==
    \A p \in DOMAIN files :
        (run = 1 /\ strict /\ CaughtUp(p)) => processed = OneShot(p, disk[p])

\* C2: across the readNewLines calls of a watcher the byteOffset of a tailed file
\* never decreases and is never negative.
C2_OffsetMonotone ==
    [][\A p \in (DOMAIN files) \cap (DOMAIN files') :
          /\ files'[p].byteOffset >= files[p].byteOffset
          /\ files'[p].byteOffset >= 0]_vars

\* C3: a persisted byteOffset is the first byte not yet consumed into a complete
\* record: it lies at a line boundary of the file, every complete record before it
\* had been handed to the projector when the cursor was written, and no record
\* handed by then lies at or after it.
C3_CursorAtRecordBoundary ==
    \A p \in DOMAIN cursors :
        LET o == cursors[p].byteOffset
            content == disk[p]
        IN  /\ o \in 0..Len(content)
            /\ o = 0 \/ content[o] = "\n"
            /\ \A b \in LineEnds(content) :
                LET line == Trim(LineAt(content, b))
                IN  (line # <<>> /\ JSONparse(line).ok) =>
                        (b <= o <=> line \in savedDelivered[p])

\* a readNewLines call of run() on file p that reads bytes
ReadsBytes(p) ==
    /\ pc \in {"read", "drain"}
    /\ idx <= Len(order)
    /\ order[idx] = p
    /\ idx' = idx + 1
    /\ Len(disk[p]) > files[p].byteOffset

C5_NoReplayAfterRestart ==
    \A p \in DOMAIN files :
        LET mine  == ProcessedOf(p)
            N     == files[p].lineCount - Len(mine)
            lines == CompleteEntryLines(disk[p])
        IN  N >= 1 =>
              /\ \A i \in 1..Len(mine) : \A j \in 1..Min(N, Len(lines)) :
                     mine[i].line # lines[j]
              /\ Len(mine) >= 1 =>
                     (N + 1 <= Len(lines) /\ mine[1].line = lines[N + 1])

\* C6: over all watcher processes, each complete record of a file is handed to the
\* projector at most once.
C6_AtMostOnce == \A k \in DOMAIN delivered : delivered[k] <= 1

-----------------------------------------------------------------------------
(* Properties of the projector.                                            *)

Ephemeral(activity) == "ephemeral" \in DOMAIN activity /\ activity.ephemeral

\* an assistant entry whose first content block is a tool_use
IsToolUse(entry) ==
    /\ Str(entry, "type") = "assistant"
    /\ entry.message.content # <<>>
    /\ entry.message.content[1].type = "tool_use"

\* the positions in processed of the tool_use records
UseAt == { i \in 1..Len(processed) : IsToolUse(processed[i].entry) }

UseBlock(i) == processed[i].entry.message.content[1]

\* the positions of the tool_use records with id u
UsesOf(u) == { i \in UseAt : UseBlock(i).id = u }

\* the content blocks of a user entry whose content is an array
ResultBlocks(entry) ==
    IF Str(entry, "type") = "user" /\ ~entry.message.contentIsString
    THEN entry.message.content ELSE <<>>

IsErrorResult(block) ==
    \/ "is_error" \in DOMAIN block /\ block.is_error
    \/ Includes(RawContent(block), "<tool_use_error>")

\* the tool_result blocks for id u in the records processed after position i
ResultsAfter(u, i) ==
    { kj \in ((i + 1)..Len(processed)) \X (1..2) :
        LET blocks == ResultBlocks(processed[kj[1]].entry)
        IN  /\ kj[2] <= Len(blocks)
            /\ blocks[kj[2]].type = "tool_result"
            /\ blocks[kj[2]].tool_use_id = u }

\* the activities emitted for tool_use id u
ActsOf(u) == { a \in 1..Len(activities) : causes[a] = u }

\* the tool_use at position i, the only one with its id and followed by at most one
\* tool_result, has nEph ephemeral actions, then at most one finalizing activity,
\* and none without a tool_result
Correlated(i, nEph) ==
    LET u   == UseBlock(i).id
        eph == { a \in ActsOf(u) : Ephemeral(activities[a]) }
        fin == ActsOf(u) \ eph
    IN  (UsesOf(u) = {i} /\ Cardinality(ResultsAfter(u, i)) <= 1) =>
            /\ Cardinality(eph) = nEph
            /\ Cardinality(fin) <= 1
            /\ \A a \in eph, b \in fin : a < b
            /\ ResultsAfter(u, i) = {} => fin = {}

\* C7: correlation.  Every tool_use record with id u that is followed by at most
\* one tool_result for u gives exactly one ephemeral action and at most one
\* finalizing activity, the ephemeral one first; with no tool_result, exactly the
\* ephemeral action.
C7_Correlation == \A i \in UseAt : Correlated(i, 1)

\* C7 as the code has it: the ephemeral action is emitted for a tool that has a
\* mapper; a tool without a mapper gets no ephemeral action and at most one
\* finalizing activity.
C7_CorrelationOfMapped ==
    \A i \in UseAt : Correlated(i, IF HasMapper(UseBlock(i).name) THEN 1 ELSE 0)

\* a mapped tool_use and its one tool_result gave the ephemeral and the final action
C7_Witness ==
    \E i \in UseAt :
        LET u == UseBlock(i).id
        IN  /\ HasMapper(UseBlock(i).name)
            /\ UsesOf(u) = {i}
            /\ Cardinality(ResultsAfter(u, i)) = 1
            /\ Cardinality(ActsOf(u)) = 2

\* C8: a tool_use record of a mapped tool, then a user record that carries no
\* sourceToolAssistantUUID and whose content array holds the matching tool_result,
\* emit two activities: the ephemeral action, then a non-ephemeral action with the
\* same action and parameter.
C8_ResultWithoutSource ==
    (/\ Len(processed) = 2
     /\ IsToolUse(processed[1].entry)
     /\ HasMapper(UseBlock(1).name)
     /\ ~Truthy(processed[2].entry, "sourceToolAssistantUUID")
     /\ \E j \in 1..Len(ResultBlocks(processed[2].entry)) :
            LET block == ResultBlocks(processed[2].entry)[j]
            IN  /\ block.type = "tool_result"
                /\ block.tool_use_id = UseBlock(1).id
                /\ ~IsErrorResult(block))
    => /\ Len(activities) = 2
       /\ Ephemeral(activities[1])
       /\ ~Ephemeral(activities[2])
       /\ activities[2].content.type = "action"
       /\ activities[2].content.action = activities[1].content.action
       /\ activities[2].content.parameter = activities[1].content.parameter

\* C9: a tool_result whose tool_use_id is not pending is dropped.  A user record
\* none of whose tool_results is pending leaves the activities, the plan updates,
\* the pending registry and the plan as they were; in any user record only the
\* pending ids can add an activity or a plan update or leave the registry.
C9_UnknownResultDropped ==
    [][Len(processed') = Len(processed) + 1 =>
          LET blocks == ResultBlocks(processed'[Len(processed')].entry)
              hit == { blocks[j].tool_use_id : j \in
                         { k \in 1..Len(blocks) :
                             /\ blocks[k].type = "tool_result"
                             /\ blocks[k].tool_use_id \in DOMAIN pendingToolUses } }
          IN  Str(processed'[Len(processed')].entry, "type") = "user" =>
                /\ hit = {} => UNCHANGED <<pendingToolUses, tasks, activities, planUpdates>>
                /\ Len(activities') - Len(activities) <= Cardinality(hit)
                /\ Len(planUpdates') - Len(planUpdates) <= Cardinality(hit)
                /\ (DOMAIN pendingToolUses) \ hit \subseteq DOMAIN pendingToolUses']_vars

\* a second tool_result arrived for an id whose first result had been consumed,
\* and the id has its two activities only
C9_Witness ==
    \E i \in UseAt :
        LET u == UseBlock(i).id
        IN  /\ UsesOf(u) = {i}
            /\ Cardinality(ResultsAfter(u, i)) >= 2
            /\ u \notin DOMAIN pendingToolUses
            /\ Cardinality(ActsOf(u)) = 2

-----------------------------------------------------------------------------
(* Properties of the plan reducer, the error results and the tracker       *)
(* writes.                                                                 *)

\* the record a step hands to the projector
Handed == processed'[Len(processed')].entry

\* a step that hands one record to the projector
HandsRecord == Len(processed') = Len(processed) + 1

\* C11: the plan reducer changes state, and a plan update is sent, only while a
\* tool_result is processed that is not an error and whose pending tool is
\* TaskCreate, TaskUpdate or TodoWrite; every other record leaves the plan as it
\* was and sends no plan update.
C11_PlanOnlyOnPlanToolSuccess ==
    [][(tasks' # tasks \/ planUpdates' # planUpdates) =>
          /\ HandsRecord
          /\ \E j \in 1..Len(ResultBlocks(Handed)) :
                LET block == ResultBlocks(Handed)[j]
                IN  /\ block.type = "tool_result"
                    /\ ~IsErrorResult(block)
                    /\ block.tool_use_id \in DOMAIN pendingToolUses
                    /\ pendingToolUses[block.tool_use_id].name \in PlanTools]_vars

\* a created task was moved to in_progress, each change sent to the tracker
C11_Witness ==
    /\ Len(planUpdates) = 2
    /\ Len(tasks) = 1
    /\ tasks[1].status = "in_progress"
    /\ planUpdates[2] = <<[content |-> "Write tests", status |-> "inProgress"]>>

TrackerOps == {"createAgentActivity", "updateAgentSession"}

\* the calls that have not returned after the first k events of io
Outstanding(k) ==
    { c \in 1..k :
        /\ io[c].ev = "call"
        /\ ~\E d \in (c + 1)..k : io[d].op = io[c].op /\ io[d].ev # "call" }

\* C13: every createAgentActivity and updateAgentSession call is preceded by its
\* own completed acquire(), one acquire per write, and at no time are two acquires
\* or two tracker writes (or one of each) outstanding.
C13_WritesBehindAcquire ==
    /\ \A k \in 1..Len(io) : Cardinality(Outstanding(k)) <= 1
    /\ \A k \in 1..Len(io) :
          (io[k].ev = "call" /\ io[k].op \in TrackerOps) =>
              /\ k >= 3
              /\ io[k - 2] = Call("acquire")
              /\ io[k - 1] = Return("acquire")
    /\ Cardinality({ k \in 1..Len(io) : io[k] = Call("acquire") })
         = Cardinality({ k \in 1..Len(io) : io[k].ev = "call" /\ io[k].op \in TrackerOps })
    /\ Cardinality({ k \in 1..Len(io) : io[k] = Call("createAgentActivity") })
         = Len(activities)
    /\ Cardinality({ k \in 1..Len(io) : io[k] = Call("updateAgentSession") })
         = Len(planUpdates)

\* one record gave a plan update and then an activity, each behind its acquire
C13_Witness ==
    \E k \in 1..Len(io) :
        /\ k + 7 <= Len(io)
        /\ SubSeq(io, k, k + 3) = Acquire \o <<Call("updateAgentSession"),
                                                Return("updateAgentSession")>>
        /\ SubSeq(io, k + 4, k + 7) = Acquire \o <<Call("createAgentActivity"),
                                                    Return("createAgentActivity")>>

-----------------------------------------------------------------------------
(* Properties of the rate limiter.                                         *)

\* one refill period, in ms
Period == Token \div rateLimiter.perSecond

\* C14: rate-limiter cap.  Under any arrival pattern, several calls pending at
\* once included, the acquire() completions in any time window of D ms number at
\* most burst + perSecond * D / 1000.
C14_RateCap ==
    \A i, j \in 1..Len(acquired) :
        i <= j =>
            (j - i + 1) * Token
              <= rateLimiter.maxTokens + rateLimiter.perSecond * (acquired[j].at - acquired[i].at)

\* C15: acquire() resolves only when a token is there: the token count is never
\* negative, also with several calls pending on an empty bucket; and of two calls
\* made at the same time on an empty bucket, the first resolved when its timer was
\* due, the second resolves one full refill period after the first.
C15_OneTokenPerAcquire ==
    /\ rateLimiter.tokens >= 0
    /\ \A i, j \in 1..Len(acquired) :
          (/\ i < j
           /\ acquired[i].waited /\ acquired[j].waited
           /\ acquired[i].calledAt = acquired[j].calledAt
           /\ acquired[i].at = acquired[i].calledAt + Period)
          => acquired[j].at >= acquired[i].at + Period

\* C16: the token count never exceeds burst, so at any instant, whatever the idle
\* time before it, at most burst acquire() calls complete without waiting.
C16_TokensCappedAtBurst ==
    /\ rateLimiter.tokens <= rateLimiter.maxTokens
    /\ \A t \in 0..Horizon :
          Cardinality({ i \in 1..Len(acquired) :
                          acquired[i].at = t /\ ~acquired[i].waited }) * Token
            <= rateLimiter.maxTokens

\* after the bucket was drained and more than burst refill periods went by, burst
\* calls completed at once and the next one has to wait
C16_Witness ==
    /\ Len(acquired) >= 2
    /\ acquired[1].at = 0
    /\ \E i \in 2..Len(acquired) :
          /\ ~acquired[i].waited
          /\ acquired[i].at = now
          /\ now * rateLimiter.perSecond > rateLimiter.maxTokens
    /\ \E c \in DOMAIN timers : timers[c].calledAt = now /\ timers[c].due > now

\* C17: every acquire() call resolves in the end, whatever the number of calls
\* pending at once, provided time advances.
C17_AcquireResolves ==
    \A c \in 1..MaxAcquires :
        (c \in DOMAIN timers) ~> (\E i \in 1..Len(acquired) : acquired[i].call = c)

\* two calls were pending at once and both have resolved
C17_Witness ==
    \E i, j \in 1..Len(acquired) :
        /\ i < j
        /\ acquired[i].waited /\ acquired[j].waited
        /\ acquired[j].calledAt < acquired[i].at

-----------------------------------------------------------------------------
(* Properties of the lock.                                                 *)

\* the live processes acquireLock returned true to
Holders == { p \in Procs : lockResult[p] = "true" /\ p \in alive }

\* C18: single-session lock.  Over any interleaving of the steps of acquireLock
\* run by the live processes of one host, a stale or unparsable lock file at the
\* start included, at most one process gets true.
C18_SingleHolder == Cardinality(Holders) <= 1

\* process p returns from acquireLock in this step
Returns(p) == lockPc[p] # "done" /\ lockPc'[p] = "done"

\* C19: a call of acquireLock that finds the lock file recording the pid of a live
\* process returns false and leaves the file as it is; a call that finds it
\* recording a pid that is not alive removes that file and returns true, the file
\* then recording the pid of the caller and the session id.
C19_StaleLockRetaken ==
    [][\A p \in Procs :
          (Returns(p) /\ lockBefore[p].file.kind = "json") =>
              IF lockBefore[p].file.pid \in lockBefore[p].live
                THEN /\ lockResult'[p] = "false"
                     /\ lockFile' = lockBefore[p].file
                ELSE /\ lockResult'[p] = "true"
                     /\ lockFile' = LockInfo(p, p)
                     /\ lockFile'.sessionId = SessionId]_vars

\* one process was refused by the lock of a live process, and one retook the
\* lock of a process that had ended
C19_Witness ==
    \E p, q \in Procs :
        /\ lockPc[p] = "done" /\ lockResult[p] = "false"
        /\ lockBefore[p].file.kind = "json"
        /\ lockBefore[p].file.pid \in lockBefore[p].live
        /\ lockPc[q] = "done" /\ lockResult[q] = "true"
        /\ lockBefore[q].file.kind = "json"
        /\ lockBefore[q].file.pid \notin lockBefore[q].live

-----------------------------------------------------------------------------
(* Properties of the pipeline under tracker failures.                      *)

\* the projector after it processed the entries handed to it, on a tracker whose
\* writes all succeed
RECURSIVE Replay(_, _)
Replay(st, handed) ==
    IF handed = <<>> THEN st
    ELSE Replay(process(st, Head(handed).entry), Tail(handed))

\* the lines of file p handed to the projector, as many as handed has
HandedOf(handed, p) == Len(SelectSeq(handed, LAMBDA h : h.path = p))

\* the step hands lines of file p to the projector
Hands(p) == HandedOf(processed', p) > HandedOf(processed, p)

\* C20: a tracker write that throws does not abort the pipeline.  Whatever writes
\* threw, process returned normally for every line handed to it; the projector
\* attempted, for the lines handed to it, the writes it attempts on a tracker that
\* never fails, and stands as it would stand there; and every read that handed
\* lines of a file moved the file's lineCount by their number and its byteOffset
\* forward.
C20_WriteFailureDoesNotAbort ==
    /\ [](\A i \in 1..Len(processed) : ~processed[i].threw)
    /\ [](LET st == Replay(NewEmitter, processed)
          IN  /\ activities = st.activities
              /\ planUpdates = st.planUpdates
              /\ pendingToolUses = st.pendingToolUses
              /\ tasks = st.tasks
              /\ Len(io) = Len(st.io))
    /\ [][\A p \in DOMAIN files :
            Hands(p) =>
              /\ files'[p].lineCount
                   = files[p].lineCount + HandedOf(processed', p) - HandedOf(processed, p)
              /\ files'[p].byteOffset > files[p].byteOffset]_vars

\* a write threw, and after it the watcher handed another line, whose write
\* reached the tracker; the file stands past both lines
C20_Witness ==
    /\ Len(processed) >= 2
    /\ \E i, j \in 1..Len(io) :
          /\ i < j
          /\ io[i] = Throw("createAgentActivity")
          /\ io[j] = Return("createAgentActivity")
    /\ \E p \in DOMAIN files : files[p].lineCount >= 2 /\ files[p].byteOffset > 0

-----------------------------------------------------------------------------
(* Properties of the tailer on lines of every kind.                        *)

\* the complete lines of content that hold a journal record (a JSON object)
RECURSIVE RecordLines(_)
RecordLines(lines) ==
    IF lines = <<>> THEN <<>>
    ELSE LET t == Trim(Head(lines))
         IN  (IF t # <<>> /\ JSONparse(t).ok /\ JSONparse(t).object THEN <<t>> ELSE <<>>)
             \o RecordLines(Tail(lines))

\* the lines handed to the projector from file p, in order
HandedLines(p) == [i \in 1..Len(ProcessedOf(p)) |-> ProcessedOf(p)[i].line]

\* C21: no line content makes the tailer throw or stop.  run() never ends on an
\* exception, and once the watcher has read a file to its end, the lines handed to
\* the projector are the journal records of the file, all of them, also those
\* that come after a line that is not a record or after a record whose
\* projection threw.
C21_NoLineStopsTailer ==
    /\ pc # "crashed"
    /\ \A p \in DOMAIN files :
          CaughtUp(p) =>
              HandedLines(p) = RecordLines(SubSeq(Split(disk[p]), 1, Len(Split(disk[p])) - 1))

-----------------------------------------------------------------------------
(* Properties of the shutdown.                                             *)

\* run() has returned after its main loop
ReturnedFromLoop == pc = "stopped" /\ order # <<>>

\* the lines of file p handed to the projector by any process
DeliveredLines(p) == { k.line : k \in { d \in DOMAIN delivered : d.path = p } }

\* every complete line of file p that holds an entry was handed to the projector
AllSubmitted(p) ==
    \A i \in 1..Len(CompleteEntryLines(disk[p])) :
        CompleteEntryLines(disk[p])[i] \in DeliveredLines(p)

\* the cursor of file p on disk holds the byteOffset the watcher has in memory
CursorInStep(p) == p \in DOMAIN cursors /\ cursors[p].byteOffset = files[p].byteOffset

\* C22: graceful shutdown.  When run() has returned after a signal in the main
\* loop, every complete line that was in a file at the final read has been
\* submitted to the projector, and the persisted byteOffset of every file with
\* processed lines equals its byteOffset in memory.
C22_GracefulShutdown ==
    ReturnedFromLoop =>
        \A p \in DOMAIN files :
            /\ CaughtUp(p) => AllSubmitted(p)
            /\ files[p].lineCount > 0 => CursorInStep(p)


\* the read the watcher is at exceeds what the model holds of a file
CutOff == pc \in {"read", "drain"} /\ idx <= Len(order) /\ ReadCutOff(order[idx])

\* C23: cancellation.  Once the stopping flag is set, in the wait-for-file loop
\* or in the main loop, run() returns in the end (the files stop growing, the
\* tracker calls return); a signal that arrives when the flag is set changes
\* nothing of the watcher, its files, its cursors or its projector.
C23_Cancellation ==
    /\ (stopping /\ Running) ~> (pc = "stopped" \/ CutOff)
    /\ [][signals' # signals =>
            UNCHANGED <<agentVars, cursors, watcherVars, emitterVars, historyVars>>]_vars

\* run() has returned from the main loop, a second signal having arrived on the way
C23_Witness == ReturnedFromLoop /\ stopping /\ signals > 0 /\ processed # <<>>

-----------------------------------------------------------------------------
(* Properties of the plan.                                                 *)

\* the plan the tracker holds: the one most recently sent, none at the start
TrackerPlan(updates) == IF updates = <<>> THEN <<>> ELSE updates[Len(updates)]

\* the step processes a tool_result that is no error and whose pending tool is
\* TaskCreate, TaskUpdate or TodoWrite
PlanResultStep ==
    /\ HandsRecord
    /\ Truthy(Handed, "sourceToolAssistantUUID")
    /\ \E j \in 1..Len(ResultBlocks(Handed)) :
          LET block == ResultBlocks(Handed)[j]
          IN  /\ block.type = "tool_result"
              /\ ~IsErrorResult(block)
              /\ block.tool_use_id \in DOMAIN pendingToolUses
              /\ pendingToolUses[block.tool_use_id].name \in PlanTools

\* C24: mirrored plan.  While the tracker writes succeed, after the projector has
\* processed a non-error TaskCreate, TaskUpdate or TodoWrite result the plan the
\* tracker holds is the snapshot of the reducer, also when the operation removed
\* the last item or cleared the plan.
C24_MirroredPlan ==
    [][(PlanResultStep /\ ~down) => TrackerPlan(planUpdates') = toLinearPlan(tasks')]_vars


\* C25: plan idempotence.  From any plan state, handleTodoWrite applied twice with
\* the same input yields the snapshot that applying it once yields.
C25_TodoWriteIdempotent ==
    \A input \in TodoInputs :
        toLinearPlan(handleTodoWrite(handleTodoWrite(tasks, input), input))
          = toLinearPlan(handleTodoWrite(tasks, input))

\* handleTodoWrite was called twice in a row with the same todos, on a plan that
\* held other items
C25_Witness ==
    /\ Len(processed) = 3
    /\ processed[1].entry.call = "handleTaskCreate"
    /\ processed[2].entry.call = "handleTodoWrite"
    /\ processed[3].entry = processed[2].entry
    /\ "todos" \in DOMAIN processed[3].entry.input
    /\ Len(tasks) = 2

\* the ids of the plan's items, in the order of the snapshot
PlanIds(ts) == [i \in 1..Len(ts) |-> ts[i].id]

\* the ids present after the first n calls, each at the place of its first
\* insertion since it was last removed
RECURSIVE InsertionOrder(_)
InsertionOrder(n) ==
    IF n = 0 THEN <<>>
    ELSE LET before == InsertionOrder(n - 1)
             c      == processed[n].entry
             has(id) == \E i \in 1..Len(before) : before[i] = id
         IN  CASE c.call = "handleTaskCreate" ->
                    LET id == parseTaskId(processed[n].line)
                    IN  IF id = "" \/ has(id) THEN before ELSE Append(before, id)
               [] c.call = "handleTaskUpdate" ->
                    IF Str(c.input, "status") = "deleted"
                    THEN SelectSeq(before, LAMBDA id : id # Str(c.input, "taskId"))
                    ELSE before
               [] OTHER ->
                    IF "todos" \in DOMAIN c.input
                    THEN [i \in 1..Len(c.input.todos) |-> IndexStr[i]]
                    ELSE <<>>

\* an update of an existing item that does not delete it
UpdateInPlace ==
    /\ Len(processed') = Len(processed) + 1
    /\ processed'[Len(processed')].entry.call = "handleTaskUpdate"
    /\ Str(processed'[Len(processed')].entry.input, "status") # "deleted"
    /\ TaskIndex(tasks, Str(processed'[Len(processed')].entry.input, "taskId")) # 0

\* C26: plan order.  The snapshot lists the items in the order in which their ids
\* were inserted, and a handleTaskUpdate that changes the status or the content of
\* an existing item leaves every item at its position and every other item as it
\* was.
C26_PlanOrder ==
    /\ [](PlanIds(tasks) = InsertionOrder(Len(processed)))
    /\ [][UpdateInPlace =>
            /\ PlanIds(tasks') = PlanIds(tasks)
            /\ \A i \in 1..Len(tasks) :
                 tasks[i].id # Str(processed'[Len(processed')].entry.input, "taskId")
                   => tasks'[i] = tasks[i]]_vars

\* two items were created and the first of them was then updated
C26_Witness ==
    /\ Len(processed) = 3
    /\ processed[3].entry.call = "handleTaskUpdate"
    /\ Str(processed[3].entry.input, "taskId") = "1"
    /\ Str(processed[3].entry.input, "status") = "in_progress"
    /\ PlanIds(tasks) = <<"1", "2">>
    /\ tasks[1].status = "in_progress"

\* the statuses the tracker's plan knows
LinearStatuses == {"pending", "inProgress", "completed", "canceled"}

\* C27: after any sequence of handleTaskCreate, handleTaskUpdate and
\* handleTodoWrite calls, every item of the snapshot has a status among pending,
\* inProgress, completed and canceled, a stored status outside the translation
\* table being exported as pending.
C27_StatusInTable ==
    \A i \in 1..Len(tasks) :
        /\ toLinearPlan(tasks)[i].status \in LinearStatuses
        /\ tasks[i].status \notin DOMAIN STATUS_MAP
             => toLinearPlan(tasks)[i].status = "pending"

\* the files this step called isLinkedSession on
ExaminedNow == { c \in DOMAIN examined' :
                   c \notin DOMAIN examined \/ Len(examined'[c]) > Len(examined[c]) }

\* C28: a candidate file is examined by the successor scanner at most once in a
\* watcher's lifetime, whether it matched, did not match or could not be read, and
\* a file examined and not adopted is never adopted later, even when its session
\* id becomes known afterwards.
C28_ExaminedOnce ==
    /\ [](\A c \in DOMAIN examined : Len(examined[c]) <= 1)
    /\ [][\A c \in DOMAIN examined :
            c \notin DOMAIN files /\ run' = run => c \notin DOMAIN files']_vars

\* a file holding a session not yet known was examined and left aside, the session
\* became known afterwards and the scanner ran again; a file that could not be
\* read was examined as well
C28_Witness ==
    /\ \E c \in DOMAIN examined :
         /\ examined[c] = <<[readable |-> TRUE, linked |-> FALSE]>>
         /\ isLinkedSession(disk[c], knownSessionIds)
         /\ c \notin DOMAIN files
    /\ \E c \in DOMAIN examined : ~examined[c][1].readable
    /\ pc = "save"
    /\ \A p \in Paths : p \in DOMAIN files /\ files[p].lineCount = 2

\* the first MAX_LINK_CHECK_LINES lines that are not blank, of the head of a file
FirstNonEmptyLines(content) ==
    LET head  == BlobSlice(content, 0, Min(Len(content), LINK_HEAD_BYTES))
        lines == SelectSeq(Split(head), LAMBDA l : Trim(l) # <<>>)
    IN  SubSeq(lines, 1, Min(Len(lines), MAX_LINK_CHECK_LINES))

\* one of these lines parses as JSON with a sessionId of the known set
MatchesKnown(lines, known) ==
    \E i \in 1..Len(lines) :
        /\ JSONparse(lines[i]).ok
        /\ JSONparse(lines[i]).object
        /\ Truthy(JSONparse(lines[i]).value, "sessionId")
        /\ JSONparse(lines[i]).value.sessionId \in known

\* C29: a candidate file is adopted exactly when one of its first 5 non-empty
\* lines (within the first 32 KiB) parses as JSON with a sessionId that is in the
\* known-sessions set at scan time; blank lines do not count towards the 5, and a
\* match on a later line does not adopt the file.
C29_AdoptedOnFirstFiveNonEmpty ==
    [][\A c \in ExaminedNow :
          examined'[c][Len(examined'[c])].readable =>
             (c \in DOMAIN files'
                <=> MatchesKnown(FirstNonEmptyLines(disk[c]), knownSessionIds))]_vars

-----------------------------------------------------------------------------
(* Properties of the order of the tracker writes.                          *)

\* the tracker writes of this process, as positions of their calls in io
WriteCalls == { k \in 1..Len(io) : io[k].ev = "call" /\ io[k].op \in TrackerOps }

\* the activity that the createAgentActivity call at position k of io wrote
ActivityNo(k) == Cardinality({ j \in 1..k : io[j] = Call("createAgentActivity") })

\* the journal line that caused the write at position k of io: a plan update and a
\* final action come from the tool_result R, an ephemeral action from the tool_use
\* U, a text or a thought from the line that holds its body
CausingLine(k) ==
    IF io[k].op = "updateAgentSession" THEN "R"
    ELSE LET a == ActivityNo(k)
         IN  IF causes[a] = "tu-3"
             THEN (IF "ephemeral" \in DOMAIN activities[a] THEN "U" ELSE "R")
             ELSE activities[a].content.body[1]

\* the number of the line of the journal that holds the entry named n
LineNo(n) ==
    LET p     == CHOOSE q \in Paths : TRUE
        lines == Split((IF p \in DOMAIN disk THEN disk[p] ELSE <<>>) \o todo[p])
    IN  CHOOSE i \in 1..Len(lines) : lines[i] = Stringify(n)

\* C30: tracker writes are issued in the order the records that caused them were
\* consumed from a file: no write caused by a later line of the file is issued
\* before a write caused by an earlier line, and for one successful TaskCreate
\* result the plan update is issued before the final action.
C30_WritesInConsumptionOrder ==
    /\ \A k1, k2 \in WriteCalls :
          k1 < k2 => LineNo(CausingLine(k1)) <= LineNo(CausingLine(k2))
    /\ \A k \in WriteCalls :
          (io[k].op = "createAgentActivity" /\ CausingLine(k) = "R") =>
              /\ \E j \in 1..(k - 1) : io[j] = Call("updateAgentSession")
              /\ ~\E j \in (k + 1)..Len(io) : io[j] = Call("updateAgentSession")

\* the tool_use line and then the tool_result line were consumed: the ephemeral
\* action, the plan update and the final action were written
C30_Witness ==
    /\ Len(processed) = 2
    /\ processed[2].entry = JournalEntry("R")
    /\ Len(activities) = 2
    /\ Len(planUpdates) = 1
    /\ Cardinality(WriteCalls) = 3

-----------------------------------------------------------------------------
(* Properties of the plan reducer, call by call.                           *)

\* the call this step makes on the tracker
CallMade == processed'[Len(processed')]

\* this step calls the method named call
Calls(call) == Len(processed') = Len(processed) + 1 /\ CallMade.entry.call = call

\* C31: handleTaskUpdate with a taskId that the plan does not hold, or with no
\* taskId, leaves the whole plan unchanged; with status "deleted" on an existing
\* id it removes exactly that entry and changes no other; otherwise it changes
\* only the status and/or the content of that one entry.
C31_UpdateFrame ==
    [][Calls("handleTaskUpdate") =>
        LET input == CallMade.entry.input
            id    == Str(input, "taskId")
            i     == TaskIndex(tasks, id)
        IN  IF i = 0 THEN tasks' = tasks
            ELSE IF Str(input, "status") = "deleted"
            THEN tasks' = SelectSeq(tasks, LAMBDA t : t.id # id)
            ELSE /\ Len(tasks') = Len(tasks)
                 /\ \A j \in 1..Len(tasks) : j # i => tasks'[j] = tasks[j]
                 /\ tasks'[i].id = id
                 /\ tasks'[i].status = IF Truthy(input, "status") THEN input.status
                                       ELSE tasks[i].status
                 /\ tasks'[i].content = IF Truthy(input, "subject") THEN input.subject
                                        ELSE tasks[i].content]_vars

\* two items were created; an update without taskId left both as they were
C31_Witness ==
    /\ Len(processed) = 3
    /\ processed[3].entry.call = "handleTaskUpdate"
    /\ "taskId" \notin DOMAIN processed[3].entry.input
    /\ PlanIds(tasks) = <<"1", "2">>
    /\ \A i \in 1..2 : tasks[i].status = "pending"

\* C32: handleTodoWrite replaces the entire plan.  Afterwards the plan holds
\* exactly one item per element of input.todos, in array order, keyed by the array
\* index, and nothing that was in the plan before; with todos absent or empty the
\* plan is empty.
C32_TodoWriteReplaces ==
    [][Calls("handleTodoWrite") =>
        LET input == CallMade.entry.input
            todos == IF "todos" \in DOMAIN input THEN input.todos ELSE <<>>
        IN  /\ Len(tasks') = Len(todos)
            /\ \A i \in 1..Len(todos) :
                 /\ tasks'[i].id = IndexStr[i]
                 /\ tasks'[i].content = Str(todos[i], "content")
                 /\ tasks'[i].status = IF "status" \in DOMAIN todos[i]
                                       THEN todos[i].status ELSE "pending"]_vars

\* a plan of two created tasks was replaced by two todos, and that plan was then
\* emptied by a TodoWrite without todos
C32_Witness ==
    /\ Len(processed) = 3
    /\ processed[1].entry.call = "handleTaskCreate"
    /\ processed[2].entry.call = "handleTodoWrite"
    /\ "todos" \in DOMAIN processed[2].entry.input
    /\ Len(processed[2].entry.input.todos) = 2
    /\ processed[3].entry.call = "handleTodoWrite"
    /\ "todos" \notin DOMAIN processed[3].entry.input
    /\ tasks = <<>>

\* C40: handleTaskCreate never changes an item that is already in the plan: it
\* only adds a new item, with status pending, under an id not yet present, also
\* when the plan holds items written by TodoWrite under index keys.
C40_CreateOnlyAdds ==
    [][Calls("handleTaskCreate") =>
        /\ \A i \in 1..Len(tasks) : i <= Len(tasks') /\ tasks'[i] = tasks[i]
        /\ Len(tasks') <= Len(tasks) + 1
        /\ Len(tasks') = Len(tasks) + 1 =>
             /\ tasks'[Len(tasks')].status = "pending"
             /\ TaskIndex(tasks, tasks'[Len(tasks')].id) = 0]_vars

-----------------------------------------------------------------------------
(* Properties of the pending registry.                                     *)

\* the tool_use block that the record at position i of processed registers, as a
\* set: the first block of an assistant record that is no API error
UsesAt(i) ==
    LET entry == processed[i].entry
    IN  IF /\ Str(entry, "type") = "assistant"
           /\ "message" \in DOMAIN entry
           /\ ~("isApiErrorMessage" \in DOMAIN entry /\ entry.isApiErrorMessage)
           /\ entry.message.content # <<>>
           /\ entry.message.content[1].type = "tool_use"
        THEN {entry.message.content[1]}
        ELSE {}

\* the ids of the tool_result blocks handled in the record at position i: those
\* of a user record that carries sourceToolAssistantUUID
HandledAt(i) ==
    LET entry == processed[i].entry
    IN  IF Str(entry, "type") = "user" /\ Truthy(entry, "sourceToolAssistantUUID")
        THEN { ResultBlocks(entry)[j].tool_use_id :
                 j \in { k \in 1..Len(ResultBlocks(entry)) :
                           ResultBlocks(entry)[k].type = "tool_result" } }
        ELSE {}

\* the positions of the tool_use records whose result has not been handled
Unanswered ==
    { i \in 1..Len(processed) :
        /\ UsesAt(i) # {}
        /\ \A k \in (i + 1)..Len(processed) :
             \A b \in UsesAt(i) : b.id \notin HandledAt(k) }

\* C33: at every point of a run the pending registry holds exactly the tool_use
\* ids registered in this run for which no tool_result has been handled yet: an
\* entry is added by every tool_use, mapped tool or not, and removed by the first
\* tool_result with that id, success or error.
C33_PendingRegistry ==
    /\ DOMAIN pendingToolUses = { b.id : b \in UNION { UsesAt(i) : i \in Unanswered } }
    /\ \A i \in Unanswered : \A b \in UsesAt(i) :
          (\A k \in Unanswered : k <= i \/ \A c \in UsesAt(k) : c.id # b.id)
             => pendingToolUses[b.id] = [name |-> b.name, input |-> b.input]

\* the tool_use of a tool without mapper is pending, and the tool_use of Bash was
\* removed by a tool_result that was an error
C33_Witness ==
    /\ "tu-2" \in DOMAIN pendingToolUses
    /\ "tu-1" \notin DOMAIN pendingToolUses
    /\ \E i, k \in 1..Len(processed) :
          /\ i < k
          /\ \E b \in UsesAt(i) : b.id = "tu-1"
          /\ "tu-1" \in HandledAt(k)
          /\ \E j \in 1..Len(ResultBlocks(processed[k].entry)) :
                IsErrorResult(ResultBlocks(processed[k].entry)[j])

\* the activities written by this step
NewActivities == SubSeq(activities', Len(activities) + 1, Len(activities'))

-----------------------------------------------------------------------------
(* Properties of the cursor save cadence.                                  *)

\* C35: cursor save cadence.  In the main loop the cursors are persisted whenever
\* some file has accumulated 10 or more unsaved lines (or the 5 s have passed), so
\* that when a sweep begins no tailed file has 10 or more lines processed since
\* the cursors were last persisted; the count of unsaved lines of a file is the
\* number of its lines processed since then.
C35_SaveCadence ==
    /\ [](pc = "loop" =>
            \A p \in DOMAIN files : files[p].linesSinceSave < CURSOR_SAVE_LINES)
    /\ [][\A p \in DOMAIN files :
            Hands(p) =>
              files'[p].linesSinceSave
                = files[p].linesSinceSave
                    + HandedOf(processed', p) - HandedOf(processed, p)]_vars
    /\ [][(pc = "save" /\ pc' = "loop"
             /\ \E p \in DOMAIN files : files[p].linesSinceSave >= CURSOR_SAVE_LINES) =>
            /\ \A p \in DOMAIN files : files'[p].linesSinceSave = 0
            /\ \A p \in DOMAIN files :
                 (/\ p \in DOMAIN cursors'
                  /\ (p \notin DOMAIN cursors \/ cursors'[p] # cursors[p]))
                   => cursors'[p] = [byteOffset |-> files[p].byteOffset,
                                     lineCount  |-> files[p].lineCount,
                                     lastUuid   |-> files[p].lastUuid]]_vars

\* nine lines were read and no save was due; the tenth line read in the next sweep
\* set the save off: the cursor holds ten lines when the third sweep begins
C35_Witness ==
    /\ pc = "loop"
    /\ \E p \in DOMAIN files :
          /\ files[p].lineCount = CURSOR_SAVE_LINES
          /\ files[p].linesSinceSave = 0
          /\ p \in DOMAIN cursors
          /\ cursors[p].lineCount = CURSOR_SAVE_LINES
          /\ Len(disk[p]) = Len(SummaryLines(CURSOR_SAVE_LINES - 1) \o Jsonl(<<"B">>))

-----------------------------------------------------------------------------
(* Properties of the activities.                                           *)

\* the record handed in this step is an assistant record, no API error, whose
\* block is of one of the types
HandedBlock(types) ==
    /\ Str(Handed, "type") = "assistant"
    /\ ~("isApiErrorMessage" \in DOMAIN Handed /\ Handed.isApiErrorMessage)
    /\ Handed.message.content # <<>>
    /\ Handed.message.content[1].type \in types

\* C36: an activity is sent with ephemeral = true exactly when it is the thought
\* of a thinking block or the action emitted at a tool_use; every activity caused
\* by a tool_result, a text block, a summary, a queue-operation, a user prompt or
\* an API error carries no ephemeral flag, and every activity carries the
\* watcher's configured session id as agentSessionId, whatever sessionId the
\* record itself has.
C36_EphemeralAndSession ==
    [][HandsRecord =>
         \A i \in 1..Len(NewActivities) :
            /\ NewActivities[i].agentSessionId = SessionId
            /\ IF HandedBlock({"thinking", "tool_use"})
               THEN /\ "ephemeral" \in DOMAIN NewActivities[i]
                    /\ NewActivities[i].ephemeral
                    /\ NewActivities[i].content.type
                         = IF HandedBlock({"thinking"}) THEN "thought" ELSE "action"
               ELSE "ephemeral" \notin DOMAIN NewActivities[i]]_vars

\* a thought, a response, the action of a tool_use and the action of its
\* tool_result were written, the first and the third of them ephemeral
C36_Witness ==
    /\ Len(activities) = 4
    /\ "ephemeral" \in DOMAIN activities[1] /\ activities[1].content.type = "thought"
    /\ "ephemeral" \notin DOMAIN activities[2] /\ activities[2].content.type = "response"
    /\ "ephemeral" \in DOMAIN activities[3] /\ activities[3].content.type = "action"
    /\ "ephemeral" \notin DOMAIN activities[4] /\ activities[4].content.type = "action"
    /\ \A i \in 1..4 : processed[i].entry.sessionId # activities[i].agentSessionId

-----------------------------------------------------------------------------
(* Properties of the reads of one file among the others.                   *)

\* this step is a readNewLines call of run() on the file p
ReadsFile(p) ==
    /\ pc \in {"read", "drain"}
    /\ idx <= Len(order)
    /\ order[idx] = p
    /\ idx' = idx + 1

\* C37: if a tailed file has not grown since the previous readNewLines call on it,
\* the next call returns 0, submits no record and changes no state, also when the
\* file ends in an unterminated partial line (so that a sweep in which no file
\* grew sleeps for the poll interval).
C37_NoGrowthNoChange ==
    [][\A p \in DOMAIN files :
          (ReadsFile(p) /\ CaughtUp(p)) =>
              /\ files' = files
              /\ processed' = processed
              /\ pc = "read" => totalBytesRead' = totalBytesRead
              /\ UNCHANGED <<emitterVars, knownSessionIds, cursors>>]_vars

\* the place of the file p in the polling set
PlaceOf(ord, p) == CHOOSE i \in 1..Len(ord) : ord[i] = p

\* C38: each tailed file is independent.  readNewLines on one file changes only
\* that file's byteOffset, partial-line buffer, lineCount, lastUuid and count of
\* unsaved lines and leaves those of every other tailed file unchanged; a file
\* once tailed is never removed from the polling set nor reset: its state changes
\* only by a read of it, and its count of unsaved lines by a cursor save.
C38_FilesIndependent ==
    /\ [][\A p, q \in DOMAIN files :
            (ReadsFile(p) /\ q # p) => (q \in DOMAIN files' /\ files'[q] = files[q])]_vars
    /\ [][run' = run =>
            \A p \in DOMAIN files :
               /\ p \in DOMAIN files'
               /\ PlaceOf(order', p) = PlaceOf(order, p)
               /\ files'[p].path = p
               /\ files'[p] # files[p] =>
                    \/ ReadsFile(p)
                    \/ /\ pc = "save"
                       /\ files'[p] = [files[p] EXCEPT !.linesSinceSave = 0]]_vars

\* two files are tailed, a successor was adopted after lines of the first file
\* were read, and lines of both were read since
C38_Witness ==
    /\ Len(order) >= 2
    /\ \A p \in DOMAIN files : files[p].lineCount >= 1
    /\ \E p \in DOMAIN files : files[p].lineCount = 2
    /\ pc = "read"

-----------------------------------------------------------------------------
(* Properties of a watcher process that follows another one.               *)

\* the ids of the tool_use blocks that this process has registered
UsedIds == { b.id : b \in UNION { UsesAt(i) : i \in 1..Len(processed) } }

\* this process has handled a tool_result with the id
Handled(id) == \E k \in 1..Len(processed) : id \in HandledAt(k)

\* this process has registered the tool_use id and handled its tool_result after
UsedThenHandled(id) ==
    \E i, k \in 1..Len(processed) :
        i < k /\ id \in { b.id : b \in UsesAt(i) } /\ id \in HandledAt(k)

\* C39: the pending registry and the plan live only in the memory of one process.
\* A watcher that starts, from a persisted cursor or not, starts with both empty;
\* a tool_result it reads whose tool_use it has not read itself is dropped: no
\* final activity and no plan update come from it; and a TaskUpdate for a task
\* that this process has not seen created leaves the plan empty and pushes none.
C39_MemoryOfOneRun ==
    /\ [][run' # run => (pendingToolUses' = EmptyMap /\ tasks' = <<>>)]_vars
    /\ [](/\ \A a \in 1..Len(activities) :
              ("ephemeral" \notin DOMAIN activities[a] /\ causes[a] # "-")
                 => causes[a] \in UsedIds
          /\ DOMAIN pendingToolUses \subseteq UsedIds
          /\ (tasks # <<>> \/ planUpdates # <<>>) => UsedThenHandled("tu-3"))

\* the second process resumed from a cursor past the TaskCreate record; it has
\* read the result of TaskCreate, which it dropped, then the TaskUpdate record and
\* its result, for which it wrote the final action and left the plan empty
C39_Witness ==
    /\ run = 2
    /\ \E p \in DOMAIN files : p \in DOMAIN cursors /\ cursors[p].lineCount >= 1
    /\ "tu-3" \notin UsedIds
    /\ Handled("tu-3")
    /\ UsedThenHandled("tu-4")
    /\ \A a \in 1..Len(activities) : causes[a] # "tu-3"
    /\ \E a \in 1..Len(activities) :
          "ephemeral" \notin DOMAIN activities[a] /\ causes[a] = "tu-4"
    /\ tasks = <<>>
    /\ planUpdates = <<>>

=============================================================================
